---- MODULE Spec2Model ----
(***************************************************************************)
(* Model of the image statistics functions of DIPlib                       *)
(* (src/src/math/statistics.cpp): the scan line filters dip__Count,        *)
(* dip__MaxPixel, dip__MinPixel, dip__MaximumAndMinimum and                *)
(* dip__CenterOfMass, each with its per-thread slots, driven by the scan   *)
(* framework one image line at a time.                                     *)
(*                                                                         *)
(* An image is two-dimensional: img[l][i] is the sample at x = i-1 of the  *)
(* line y = l-1. Lines run along dimension 0, which is the processing      *)
(* dimension (params.dimension) of every Filter call; params.position of   *)
(* line l is <<0, l-1>>. Thread slots are indexed 0..threads-1 as in the   *)
(* source.                                                                 *)
(***************************************************************************)
EXTENDS Integers, Sequences, FiniteSets, TLC

\* ---------------------------------------------------------------- bounds
\* An image has at most MaxLines lines and at most MaxPixels samples.
MaxLines == 2
MaxPixels == 4
\* The scan uses 1..MaxThreads threads.
MaxThreads == 2
\* The sample type TPI of the model: a signed integer type with the values
\* -TypeMax..TypeMax.
TypeMax == 1

\* std::numeric_limits< TPI >::lowest() and ::max()
TypeLowest == 0 - TypeMax
TypeHighest == TypeMax
Samples == TypeLowest..TypeHighest

VARIABLES
    op,         \* the statistics function that is running
    sizes,      \* <<line length, number of lines>> of the input image
    img,        \* the input image
    hasMask,    \* mask.IsForged()
    mask,       \* the mask image (same sizes as img), <<>> if not forged
    first_,     \* dip__MaxPixel / dip__MinPixel: positionFlag == "first"
    pc,         \* "new" (filter constructed), "scan", "done" (GetResult returned)
    threads,    \* number of threads of the scan, 0 before SetNumberOfThreads
    nextLine,   \* the next line the scan framework hands out (1-based)
    assigned,   \* assigned[l]: the thread slot that filtered line l
    counts_,    \* dip__Count::counts_
    value_,     \* dip__MaxPixel::value_ / dip__MinPixel::value_
    coord_,     \* dip__MaxPixel::coord_ / dip__MinPixel::coord_
    accArray_,  \* accArray_ of the accumulating filters
    result,     \* the value returned by GetResult
    forged,     \* in.IsForged()
    tensor,     \* in.TensorElements()
    maskSizes,  \* the sizes of the mask image as the caller passed it
    in2,        \* Covariance: the second input image
    process,    \* CumulativeSum: the process array
    output,     \* CumulativeSum: the image out
    error,      \* the exception the call raised
    dip_image,  \* the dip_image object img
    tshape,     \* the value last assigned to img.TensorShape
    lineFilter, \* the line a filter runs on, and the local variables of Filter
    instance_  \* the ProxyManager: its window map and callback maps

vars == << op, sizes, img, hasMask, mask, first_, pc, threads, nextLine,
           assigned, counts_, value_, coord_, accArray_, result,
           forged, tensor, maskSizes, in2, process, output, error,
           dip_image, tshape, lineFilter, instance_ >>

inputs == << op, sizes, img, hasMask, mask, first_,
             forged, tensor, maskSizes, in2, process, dip_image, tshape, lineFilter, instance_ >>

NoResult == "none"

\* No exception raised; an image that is not forged.
NoError == "none"
NoImage == << >>

\* ------------------------------------------------------------ the inputs
\* The image shapes <<line length, number of lines>> within the bounds.
Shapes == { s \in (1..MaxPixels) \X (1..MaxLines) : s[1] * s[2] <= MaxPixels }

ImagesOf(s, V) == [ 1..s[2] -> [ 1..s[1] -> V ] ]

LineLength == sizes[1]
NumLines == sizes[2]
Lines == 1..NumLines

\* The state of a call whose input is a forged scalar image, with a mask
\* (if any) of the sizes of the input, after the checks of the function
\* have passed and the line filter has been constructed.
\* No dip_image object takes part in a call of the statistics functions.
NoObject ==
    /\ instance_ = NoImage
    /\ lineFilter = NoImage
    /\ dip_image = NoImage
    /\ tshape = NoImage

ScalarCall ==
    /\ NoObject
    /\ forged = TRUE
    /\ tensor = 1
    /\ maskSizes = sizes
    /\ in2 = NoImage
    /\ process = << >>
    /\ output = NoImage
    /\ error = NoError

\* ------------------------------------------------- std::vector::resize
\* Variant of Resize that sizes the vector one slot short.
ResizeShort(v, n, fill) ==
    [ ii \in 0..(n - 2) |-> IF ii \in DOMAIN v THEN v[ii] ELSE fill ]

\* v.resize( n, fill ): slots 0..n-1, the existing ones kept.
Resize(v, n, fill) ==
    [ ii \in 0..(n-1) |-> IF ii \in DOMAIN v THEN v[ii] ELSE fill ]

EmptyVector == [ ii \in {} |-> 0 ]

\* ------------------------------------------------- the image container
Dimensionality == Len(sizes)

\* Image::CheckIsMask with singleton expansion allowed: every size of the
\* mask is 1 or the size of the image.
MaskFits ==
    /\ Len(maskSizes) = Len(sizes)
    /\ \A d \in 1..Len(sizes) : maskSizes[d] \in { 1, sizes[d] }

\* The sample of the singleton-expanded mask at index ii of line l.
MaskAt(l, ii) ==
    mask[IF maskSizes[2] = 1 THEN 1 ELSE l][IF maskSizes[1] = 1 THEN 1 ELSE ii]

\* --------------------------------------------------- the scan framework
\* Framework::ScanSingleInput: calls SetNumberOfThreads once, then Filter
\* once per line with params.thread naming the slot, and returns after all
\* threads have joined.
ScanStart(T) ==
    /\ pc = "new"
    /\ T \in 1..MaxThreads
    /\ pc' = "scan"
    /\ threads' = T
    /\ UNCHANGED << inputs, nextLine, assigned, result, output, error >>

ScanLine(t) ==
    /\ pc = "scan"
    /\ nextLine <= NumLines
    /\ t \in 0..(threads - 1)
    /\ nextLine' = nextLine + 1
    /\ assigned' = Append(assigned, t)
    /\ UNCHANGED << inputs, pc, threads, result, output, error >>

ScanJoined ==
    /\ pc = "scan"
    /\ nextLine > NumLines
    /\ pc' = "done"
    /\ UNCHANGED << inputs, threads, nextLine, assigned, output, error >>

\* params.position of line l, and the line of the (singleton-expanded)
\* mask handed to Filter.
Position(l) == << 0, l - 1 >>
MaskLine(l) ==
    IF hasMask THEN [ ii \in 1..LineLength |-> MaskAt(l, ii) ] ELSE << >>

\* ------------------------------------------------------------ dip__Count
\* The loops of dip__Count::Filter: the number counted in one line.
\* masked: params.inBuffer.size() > 1.
RECURSIVE CountLoop(_, _, _, _, _)
CountLoop(in, msk, masked, ii, count) ==
    IF ii >= Len(in) THEN count
    ELSE IF masked
         THEN CountLoop(in, msk, masked, ii + 1,
                        IF msk[ii + 1] /\ in[ii + 1] THEN count + 1 ELSE count)
         ELSE CountLoop(in, msk, masked, ii + 1,
                        IF in[ii + 1] THEN count + 1 ELSE count)

\* Variant of CountLine whose masked loop tests the mask only.
CountLineMaskOnly(in, msk, masked) ==
    IF masked THEN Cardinality({ ii \in 1..Len(in) : msk[ii] })
    ELSE CountLoop(in, msk, masked, 0, 0)

CountLine(in, msk, masked) == CountLoop(in, msk, masked, 0, 0)

\* Variants of CountStore with a slip in the slot update: the count of the
\* line replaces the slot, or always goes to slot 0.
CountStoreOverwrite(counts, thread, count) ==
    [ counts EXCEPT ![thread] = count ]

CountStoreSlotZero(counts, thread, count) ==
    [ counts EXCEPT ![0] = @ + count ]

\* counts_[ params.thread ] += count
CountStore(counts, thread, count) ==
    [ counts EXCEPT ![thread] = @ + count ]

\* dip__Count::GetResult: counts_[0] plus the slots 1..size-1 in index order.
RECURSIVE CountSum(_, _, _)
CountSum(counts, ii, out) ==
    IF ii >= Cardinality(DOMAIN counts) THEN out
    ELSE CountSum(counts, ii + 1, out + counts[ii])

CountResult(counts) == CountSum(counts, 1, counts[0])

CountSetNumberOfThreads(T) ==
    /\ op = "Count"
    /\ ScanStart(T)
    /\ counts_' = Resize(counts_, T, 0)
    /\ UNCHANGED << value_, coord_, accArray_ >>

CountFilter(t) ==
    /\ op = "Count"
    /\ ScanLine(t)
    /\ counts_' = CountStore(counts_, t,
                             CountLine(img[nextLine], MaskLine(nextLine), hasMask))
    /\ UNCHANGED << value_, coord_, accArray_ >>

CountGetResult ==
    /\ op = "Count"
    /\ ScanJoined
    /\ result' = CountResult(counts_)
    /\ UNCHANGED << counts_, value_, coord_, accArray_ >>

\* Count( in, mask ): the input is scanned as a binary image (DT_BIN).
InitCount ==
    /\ op = "Count"
    /\ sizes \in Shapes
    /\ img \in ImagesOf(sizes, BOOLEAN)
    /\ hasMask \in BOOLEAN
    /\ mask \in IF hasMask THEN ImagesOf(sizes, BOOLEAN) ELSE { << >> }
    /\ first_ = FALSE
    /\ pc = "new"
    /\ threads = 0
    /\ nextLine = 1
    /\ assigned = << >>
    /\ counts_ = EmptyVector
    /\ value_ = EmptyVector
    /\ coord_ = EmptyVector
    /\ accArray_ = EmptyVector
    /\ result = NoResult
    /\ ScalarCall

NextCount ==
    \/ \E T \in 1..MaxThreads : CountSetNumberOfThreads(T)
    \/ \E t \in 0..(MaxThreads - 1) : CountFilter(t)
    \/ CountGetResult

SpecCount == InitCount /\ [][NextCount]_vars

\* --------------------------------------------------------- dip__MaxPixel
\* The index of the processing dimension in a coordinate array
\* (params.dimension is dimension 0, the first entry).
dimension == 1

\* UnsignedArray coord( params.position.size() ): all zeros.
ZeroCoord(position) == [ jj \in 1..Len(position) |-> 0 ]

\* coord = params.position; coord[ params.dimension ] += ii;
CoordAt(position, ii) == [ position EXCEPT ![dimension] = @ + ii ]

\* The four loops of dip__MaxPixel::Filter (masked or not, first_ or not).
RECURSIVE MaxPixelLoop(_, _, _, _, _, _, _)
MaxPixelLoop(in, msk, masked, first, position, ii, st) ==
    IF ii >= Len(in) THEN st
    ELSE LET v == in[ii + 1]
             hit == IF masked
                    THEN IF first THEN msk[ii + 1] /\ (v > st.value)
                                  ELSE msk[ii + 1] /\ (v >= st.value)
                    ELSE IF first THEN v > st.value
                                  ELSE v >= st.value
         IN MaxPixelLoop(in, msk, masked, first, position, ii + 1,
                         IF hit THEN [ value |-> v, coord |-> CoordAt(position, ii) ]
                                ELSE st)

MaxPixelLine(in, msk, masked, first, position) ==
    MaxPixelLoop(in, msk, masked, first, position, 0,
                 [ value |-> TypeLowest, coord |-> ZeroCoord(position) ])

\* The end of dip__MaxPixel::Filter: the line's best is folded into the
\* slot of the thread. st is << value_, coord_ >>.
MaxPixelStore(st, thread, first, line) ==
    IF IF first THEN line.value > st[1][thread] ELSE line.value >= st[1][thread]
    THEN << [ st[1] EXCEPT ![thread] = line.value ],
            [ st[2] EXCEPT ![thread] = line.coord ] >>
    ELSE st

\* dip__MaxPixel::GetResult: the slot index chosen by the loop over 1..size-1.
RECURSIVE MaxPixelIndex(_, _, _, _)
MaxPixelIndex(values, first, ii, index) ==
    IF ii >= Cardinality(DOMAIN values) THEN index
    ELSE MaxPixelIndex(values, first, ii + 1,
                       IF IF first THEN values[ii] > values[index]
                                   ELSE values[ii] >= values[index]
                       THEN ii ELSE index)

MaxPixelResult(values, coords, first) ==
    coords[MaxPixelIndex(values, first, 1, 0)]

MaxPixelSetNumberOfThreads(T) ==
    /\ op = "MaxPixel"
    /\ ScanStart(T)
    /\ coord_' = Resize(coord_, T, << >>)
    /\ value_' = Resize(value_, T, TypeLowest)
    /\ UNCHANGED << counts_, accArray_ >>

MaxPixelFilter(t) ==
    /\ op = "MaxPixel"
    /\ ScanLine(t)
    /\ LET st == MaxPixelStore(<< value_, coord_ >>, t, first_,
                     MaxPixelLine(img[nextLine], MaskLine(nextLine), hasMask,
                                  first_, Position(nextLine)))
       IN /\ value_' = st[1]
          /\ coord_' = st[2]
    /\ UNCHANGED << counts_, accArray_ >>

MaxPixelGetResult ==
    /\ op = "MaxPixel"
    /\ ScanJoined
    /\ result' = MaxPixelResult(value_, coord_, first_)
    /\ UNCHANGED << counts_, value_, coord_, accArray_ >>

\* --------------------------------------------------------- dip__MinPixel
RECURSIVE MinPixelLoop(_, _, _, _, _, _, _)
MinPixelLoop(in, msk, masked, first, position, ii, st) ==
    IF ii >= Len(in) THEN st
    ELSE LET v == in[ii + 1]
             hit == IF masked
                    THEN IF first THEN msk[ii + 1] /\ (v < st.value)
                                  ELSE msk[ii + 1] /\ (v <= st.value)
                    ELSE IF first THEN v < st.value
                                  ELSE v <= st.value
         IN MinPixelLoop(in, msk, masked, first, position, ii + 1,
                         IF hit THEN [ value |-> v, coord |-> CoordAt(position, ii) ]
                                ELSE st)

MinPixelLine(in, msk, masked, first, position) ==
    MinPixelLoop(in, msk, masked, first, position, 0,
                 [ value |-> TypeHighest, coord |-> ZeroCoord(position) ])

MinPixelStore(st, thread, first, line) ==
    IF IF first THEN line.value < st[1][thread] ELSE line.value <= st[1][thread]
    THEN << [ st[1] EXCEPT ![thread] = line.value ],
            [ st[2] EXCEPT ![thread] = line.coord ] >>
    ELSE st

RECURSIVE MinPixelIndex(_, _, _, _)
MinPixelIndex(values, first, ii, index) ==
    IF ii >= Cardinality(DOMAIN values) THEN index
    ELSE MinPixelIndex(values, first, ii + 1,
                       IF IF first THEN values[ii] < values[index]
                                   ELSE values[ii] <= values[index]
                       THEN ii ELSE index)

MinPixelResult(values, coords, first) ==
    coords[MinPixelIndex(values, first, 1, 0)]

MinPixelSetNumberOfThreads(T) ==
    /\ op = "MinPixel"
    /\ ScanStart(T)
    /\ coord_' = Resize(coord_, T, << >>)
    /\ value_' = Resize(value_, T, TypeHighest)
    /\ UNCHANGED << counts_, accArray_ >>

MinPixelFilter(t) ==
    /\ op = "MinPixel"
    /\ ScanLine(t)
    /\ LET st == MinPixelStore(<< value_, coord_ >>, t, first_,
                     MinPixelLine(img[nextLine], MaskLine(nextLine), hasMask,
                                  first_, Position(nextLine)))
       IN /\ value_' = st[1]
          /\ coord_' = st[2]
    /\ UNCHANGED << counts_, accArray_ >>

MinPixelGetResult ==
    /\ op = "MinPixel"
    /\ ScanJoined
    /\ result' = MinPixelResult(value_, coord_, first_)
    /\ UNCHANGED << counts_, value_, coord_, accArray_ >>

\* MaximumPixel( in, mask, positionFlag ) / MinimumPixel( ... )
InitMaxMinPixel ==
    /\ op \in { "MaxPixel", "MinPixel" }
    /\ sizes \in Shapes
    /\ img \in ImagesOf(sizes, Samples)
    /\ hasMask \in BOOLEAN
    /\ mask \in IF hasMask THEN ImagesOf(sizes, BOOLEAN) ELSE { << >> }
    /\ first_ \in BOOLEAN
    /\ pc = "new"
    /\ threads = 0
    /\ nextLine = 1
    /\ assigned = << >>
    /\ counts_ = EmptyVector
    /\ value_ = EmptyVector
    /\ coord_ = EmptyVector
    /\ accArray_ = EmptyVector
    /\ result = NoResult
    /\ ScalarCall

NextMaxMinPixel ==
    \/ \E T \in 1..MaxThreads : MaxPixelSetNumberOfThreads(T)
    \/ \E t \in 0..(MaxThreads - 1) : MaxPixelFilter(t)
    \/ MaxPixelGetResult
    \/ \E T \in 1..MaxThreads : MinPixelSetNumberOfThreads(T)
    \/ \E t \in 0..(MaxThreads - 1) : MinPixelFilter(t)
    \/ MinPixelGetResult

SpecMaxMinPixel == InitMaxMinPixel /\ [][NextMaxMinPixel]_vars

\* ----------------------------------------------------- MinMaxAccumulator
\* dfloat: every sample value is representable, and the limits of dfloat
\* lie outside the range of the sample type.
DfloatMax == TypeMax + 1
DfloatLowest == 0 - DfloatMax

Max2(a, b) == IF a > b THEN a ELSE b
Min2(a, b) == IF a < b THEN a ELSE b

\* MinMaxAccumulator(): no samples seen.
MinMaxNew == [ min_ |-> DfloatMax, max_ |-> DfloatLowest ]

\* MinMaxAccumulator::Push( x )
MinMaxPush(acc, x) ==
    [ min_ |-> Min2(acc.min_, x), max_ |-> Max2(acc.max_, x) ]

\* MinMaxAccumulator::Push( x, y ): one comparison orders the pair.
MinMaxPush2(acc, x, y) ==
    IF x > y
    THEN [ min_ |-> Min2(acc.min_, y), max_ |-> Max2(acc.max_, x) ]
    ELSE [ min_ |-> Min2(acc.min_, x), max_ |-> Max2(acc.max_, y) ]

\* MinMaxAccumulator::operator+=
MinMaxAdd(acc, other) ==
    [ min_ |-> Min2(acc.min_, other.min_), max_ |-> Max2(acc.max_, other.max_) ]

\* ------------------------------------------------ dip__MaximumAndMinimum
\* The masked loop of dip__MaximumAndMinimum::Filter.
RECURSIVE MaxMinMaskedLoop(_, _, _, _)
MaxMinMaskedLoop(in, msk, ii, acc) ==
    IF ii >= Len(in) THEN acc
    ELSE MaxMinMaskedLoop(in, msk, ii + 1,
                          IF msk[ii + 1] THEN MinMaxPush(acc, in[ii + 1]) ELSE acc)

\* The unmasked loop: two samples per iteration while ii < bufferLength - 1
\* (lines of the model have bufferLength >= 1).
RECURSIVE MaxMinPairLoop(_, _, _)
MaxMinPairLoop(in, ii, acc) ==
    IF ii < Len(in) - 1
    THEN MaxMinPairLoop(in, ii + 2, MinMaxPush2(acc, in[ii + 1], in[ii + 2]))
    ELSE IF ii < Len(in) THEN MinMaxPush(acc, in[ii + 1])
         ELSE acc

MaxMinLine(in, msk, masked) ==
    IF masked THEN MaxMinMaskedLoop(in, msk, 0, MinMaxNew)
    ELSE MaxMinPairLoop(in, 0, MinMaxNew)

\* accArray_[ params.thread ] += vars
MaxMinStore(acc, thread, line) ==
    [ acc EXCEPT ![thread] = MinMaxAdd(@, line) ]

\* dip__MaximumAndMinimum::GetResult
RECURSIVE MaxMinMerge(_, _, _)
MaxMinMerge(acc, ii, out) ==
    IF ii >= Cardinality(DOMAIN acc) THEN out
    ELSE MaxMinMerge(acc, ii + 1, MinMaxAdd(out, acc[ii]))

MaxMinResult(acc) == MaxMinMerge(acc, 1, acc[0])

MaxMinSetNumberOfThreads(T) ==
    /\ op = "MaximumAndMinimum"
    /\ ScanStart(T)
    /\ accArray_' = Resize(accArray_, T, MinMaxNew)
    /\ UNCHANGED << counts_, value_, coord_ >>

MaxMinFilter(t) ==
    /\ op = "MaximumAndMinimum"
    /\ ScanLine(t)
    /\ accArray_' = MaxMinStore(accArray_, t,
                                MaxMinLine(img[nextLine], MaskLine(nextLine), hasMask))
    /\ UNCHANGED << counts_, value_, coord_ >>

MaxMinGetResult ==
    /\ op = "MaximumAndMinimum"
    /\ ScanJoined
    /\ result' = MaxMinResult(accArray_)
    /\ UNCHANGED << counts_, value_, coord_, accArray_ >>

\* ----------------------------------------------------- dip__CenterOfMass
\* nD_ = in.Dimensionality() of the two-dimensional images of the model.
nD_ == 2

\* FloatArray::operator+=, element-wise over the elements of a.
FloatArrayAdd(a, b) == [ jj \in DOMAIN a |-> a[jj] + b[jj] ]

\* FloatArray vars; -- default-constructed without a size and never
\* zeroed, then indexed as vars[ 0..nD_ ]: the sums of a line start from
\* indeterminate values. These are the values the model lets them hold.
Indeterminate == { 0, 1 }
IndeterminateVars == [ 1..(nD_ + 1) -> Indeterminate ]

\* The loops of dip__CenterOfMass::Filter. pos is advanced along the
\* processing dimension for every sample, selected or not.
RECURSIVE CenterOfMassLoop(_, _, _, _, _, _)
CenterOfMassLoop(in, msk, masked, pos, ii, sums) ==
    IF ii >= Len(in) THEN sums
    ELSE LET v == in[ii + 1]
             added == [ jj \in 1..(nD_ + 1) |->
                          IF jj <= nD_ THEN sums[jj] + pos[jj] * v
                                       ELSE sums[jj] + v ]
             next == [ pos EXCEPT ![dimension] = @ + 1 ]
         IN IF masked
            THEN CenterOfMassLoop(in, msk, masked, next, ii + 1,
                                  IF msk[ii + 1] THEN added ELSE sums)
            ELSE CenterOfMassLoop(in, msk, masked, next, ii + 1, added)

CenterOfMassLine(in, msk, masked, position, initial) ==
    CenterOfMassLoop(in, msk, masked, position, 0, initial)

\* accArray_[ params.thread ] += vars
CenterOfMassStore(acc, thread, line) ==
    [ acc EXCEPT ![thread] = FloatArrayAdd(@, line) ]

\* A quotient of two dfloat values holding integers, as a reduced fraction.
RECURSIVE Gcd(_, _)
Gcd(a, b) == IF b = 0 THEN a ELSE Gcd(b, a % b)
Abs(a) == IF a < 0 THEN 0 - a ELSE a
Quotient(a, b) ==
    LET g == Gcd(Abs(a), Abs(b))
        sgn == IF b < 0 THEN 0 - 1 ELSE 1
    IN [ num |-> sgn * (a \div g), den |-> sgn * (b \div g) ]
Whole(a) == [ num |-> a, den |-> 1 ]

\* dip__CenterOfMass::GetResult
RECURSIVE CenterOfMassMerge(_, _, _)
CenterOfMassMerge(acc, ii, out) ==
    IF ii >= Cardinality(DOMAIN acc) THEN out
    ELSE CenterOfMassMerge(acc, ii + 1, FloatArrayAdd(out, acc[ii]))

CenterOfMassResult(acc) ==
    LET out == CenterOfMassMerge(acc, 1, acc[0])
    IN IF out[nD_ + 1] # 0
       THEN [ jj \in 1..nD_ |-> Quotient(out[jj], out[nD_ + 1]) ]
       ELSE [ jj \in 1..nD_ |-> Whole(0) ]

CenterOfMassSetNumberOfThreads(T) ==
    /\ op = "CenterOfMass"
    /\ ScanStart(T)
    /\ accArray_' = [ ii \in 0..(T - 1) |-> [ jj \in 1..(nD_ + 1) |-> 0 ] ]
    /\ UNCHANGED << counts_, value_, coord_ >>

CenterOfMassFilter(t) ==
    /\ op = "CenterOfMass"
    /\ ScanLine(t)
    /\ \E initial \in IndeterminateVars :
          accArray_' = CenterOfMassStore(accArray_, t,
                          CenterOfMassLine(img[nextLine], MaskLine(nextLine), hasMask,
                                           Position(nextLine), initial))
    /\ UNCHANGED << counts_, value_, coord_ >>

CenterOfMassGetResult ==
    /\ op = "CenterOfMass"
    /\ ScanJoined
    /\ result' = CenterOfMassResult(accArray_)
    /\ UNCHANGED << counts_, value_, coord_, accArray_ >>

\* MaximumAndMinimum( in, mask ) / CenterOfMass( in, mask )
InitAccumulate ==
    /\ op \in { "MaximumAndMinimum", "CenterOfMass" }
    /\ sizes \in Shapes
    /\ img \in ImagesOf(sizes, Samples)
    /\ hasMask \in BOOLEAN
    /\ mask \in IF hasMask THEN ImagesOf(sizes, BOOLEAN) ELSE { << >> }
    /\ first_ = FALSE
    /\ pc = "new"
    /\ threads = 0
    /\ nextLine = 1
    /\ assigned = << >>
    /\ counts_ = EmptyVector
    /\ value_ = EmptyVector
    /\ coord_ = EmptyVector
    /\ accArray_ = EmptyVector
    /\ result = NoResult
    /\ ScalarCall

NextAccumulate ==
    \/ \E T \in 1..MaxThreads : MaxMinSetNumberOfThreads(T)
    \/ \E t \in 0..(MaxThreads - 1) : MaxMinFilter(t)
    \/ MaxMinGetResult
    \/ \E T \in 1..MaxThreads : CenterOfMassSetNumberOfThreads(T)
    \/ \E t \in 0..(MaxThreads - 1) : CenterOfMassFilter(t)
    \/ CenterOfMassGetResult

SpecAccumulate == InitAccumulate /\ [][NextAccumulate]_vars

\* ------------------------------------------------------ dfloat arithmetic
\* The accumulators compute in dfloat. The model computes with exact
\* fractions [ num, den ] in lowest terms, den > 0: it has no rounding.
RAdd(x, y) == Quotient(x.num * y.den + y.num * x.den, x.den * y.den)
RSub(x, y) == Quotient(x.num * y.den - y.num * x.den, x.den * y.den)
RMul(x, y) == Quotient(x.num * y.num, x.den * y.den)
RDiv(x, y) == Quotient(x.num * y.den, x.den * y.num)

\* -------------------------------------------------- StatisticsAccumulator
\* n_ samples, their mean m1_ and the sums m2_, m3_, m4_ of the second,
\* third and fourth powers of their differences from the mean.
StatisticsNew ==
    [ n_ |-> 0, m1_ |-> Whole(0), m2_ |-> Whole(0), m3_ |-> Whole(0),
      m4_ |-> Whole(0) ]

\* StatisticsAccumulator::Push( x ): the single-pass update.
StatisticsPush(acc, x) ==
    LET n1 == Whole(acc.n_)
        n == Whole(acc.n_ + 1)
        delta == RSub(Whole(x), acc.m1_)
        term1 == RDiv(delta, n)
        term2 == RMul(term1, term1)
        term3 == RMul(RMul(delta, term1), n1)
        n2 == Whole((acc.n_ + 1) * (acc.n_ + 1) - 3 * (acc.n_ + 1) + 3)
    IN [ n_ |-> acc.n_ + 1,
         m1_ |-> RAdd(acc.m1_, term1),
         m2_ |-> RAdd(acc.m2_, term3),
         m3_ |-> RSub(RAdd(acc.m3_, RMul(RMul(term3, term1), Whole(acc.n_ - 1))),
                      RMul(RMul(Whole(3), term1), acc.m2_)),
         m4_ |-> RSub(RAdd(RAdd(acc.m4_, RMul(RMul(term3, term2), n2)),
                           RMul(RMul(Whole(6), term2), acc.m2_)),
                      RMul(RMul(Whole(4), term1), acc.m3_)) ]

\* StatisticsAccumulator::operator+=: the pairwise combination of the
\* moments of two groups of samples; two groups without samples combine
\* into one without samples.
StatisticsAdd(a, b) ==
    IF a.n_ + b.n_ = 0 THEN a
    ELSE
    LET an == Whole(a.n_)
        bn == Whole(b.n_)
        n == Whole(a.n_ + b.n_)
        delta == RSub(b.m1_, a.m1_)
        delta_n == RDiv(delta, n)
        delta_n2 == RMul(delta_n, delta_n)
        xn == RMul(an, bn)
        term1 == RMul(RMul(delta, delta_n), xn)
    IN [ n_ |-> a.n_ + b.n_,
         m1_ |-> RAdd(a.m1_, RMul(bn, delta_n)),
         m2_ |-> RAdd(RAdd(a.m2_, b.m2_), term1),
         m3_ |-> RAdd(RAdd(RAdd(a.m3_, b.m3_),
                           RMul(RMul(term1, delta_n), RSub(an, bn))),
                      RMul(RMul(Whole(3), delta_n),
                           RSub(RMul(an, b.m2_), RMul(bn, a.m2_)))),
         m4_ |-> RAdd(RAdd(RAdd(RAdd(a.m4_, b.m4_),
                                RMul(RMul(term1, delta_n2),
                                     RAdd(RSub(RMul(an, an), xn), RMul(bn, bn)))),
                           RMul(RMul(Whole(6), delta_n2),
                                RAdd(RMul(RMul(an, an), b.m2_),
                                     RMul(RMul(bn, bn), a.m2_)))),
                      RMul(RMul(Whole(4), delta_n),
                           RSub(RMul(an, b.m3_), RMul(bn, a.m3_)))) ]

\* StatisticsAccumulator::Mean and ::Variance.
StatisticsMean(acc) == acc.m1_
StatisticsVariance(acc) ==
    IF acc.n_ > 1 THEN RDiv(acc.m2_, Whole(acc.n_ - 1)) ELSE Whole(0)

\* -------------------------------------------------- dip__SampleStatistics
\* The loops of dip__SampleStatistics::Filter.
RECURSIVE SampleStatisticsLoop(_, _, _, _, _)
SampleStatisticsLoop(in, msk, masked, ii, acc) ==
    IF ii >= Len(in) THEN acc
    ELSE IF masked
         THEN SampleStatisticsLoop(in, msk, masked, ii + 1,
                  IF msk[ii + 1] THEN StatisticsPush(acc, in[ii + 1]) ELSE acc)
         ELSE SampleStatisticsLoop(in, msk, masked, ii + 1,
                  StatisticsPush(acc, in[ii + 1]))

SampleStatisticsLine(in, msk, masked) ==
    SampleStatisticsLoop(in, msk, masked, 0, StatisticsNew)

\* accArray_[ params.thread ] += vars
SampleStatisticsStore(acc, thread, line) ==
    [ acc EXCEPT ![thread] = StatisticsAdd(@, line) ]

\* Variant of SampleStatisticsMerge that leaves the last slot out.
RECURSIVE SampleStatisticsMergeShort(_, _, _)
SampleStatisticsMergeShort(acc, ii, merged) ==
    IF ii >= Cardinality(DOMAIN acc) - 1 THEN merged
    ELSE SampleStatisticsMergeShort(acc, ii + 1, StatisticsAdd(merged, acc[ii]))

\* dip__SampleStatistics::GetResult
RECURSIVE SampleStatisticsMerge(_, _, _)
SampleStatisticsMerge(acc, ii, merged) ==
    IF ii >= Cardinality(DOMAIN acc) THEN merged
    ELSE SampleStatisticsMerge(acc, ii + 1, StatisticsAdd(merged, acc[ii]))

SampleStatisticsResult(acc) == SampleStatisticsMerge(acc, 1, acc[0])

SampleStatisticsSetNumberOfThreads(T) ==
    /\ op = "SampleStatistics"
    /\ ScanStart(T)
    /\ accArray_' = Resize(accArray_, T, StatisticsNew)
    /\ UNCHANGED << counts_, value_, coord_ >>

SampleStatisticsFilter(t) ==
    /\ op = "SampleStatistics"
    /\ ScanLine(t)
    /\ accArray_' = SampleStatisticsStore(accArray_, t,
           SampleStatisticsLine(img[nextLine], MaskLine(nextLine), hasMask))
    /\ UNCHANGED << counts_, value_, coord_ >>

SampleStatisticsGetResult ==
    /\ op = "SampleStatistics"
    /\ ScanJoined
    /\ result' = SampleStatisticsResult(accArray_)
    /\ UNCHANGED << counts_, value_, coord_, accArray_ >>

\* SampleStatistics( in, mask ) on a scalar image: the scan hands the lines
\* out to the threads in any way, so that a thread gets any group of lines,
\* next to each other or not, or none. Under a mask the samples are the
\* lowest and the highest value.
StatisticsSamples == { TypeLowest, 0, TypeHighest }
StatisticsShapes ==
    { s \in (1..MaxPixels) \X (1..(MaxLines + 1)) : s[1] * s[2] <= MaxPixels }

InitSampleStatistics ==
    /\ op = "SampleStatistics"
    /\ sizes \in StatisticsShapes
    /\ hasMask \in BOOLEAN
    /\ img \in IF hasMask THEN ImagesOf(sizes, { TypeLowest, TypeHighest })
               ELSE ImagesOf(sizes, StatisticsSamples)
    /\ mask \in IF hasMask THEN ImagesOf(sizes, BOOLEAN) ELSE { << >> }
    /\ first_ = FALSE
    /\ pc = "new"
    /\ threads = 0
    /\ nextLine = 1
    /\ assigned = << >>
    /\ counts_ = EmptyVector
    /\ value_ = EmptyVector
    /\ coord_ = EmptyVector
    /\ accArray_ = EmptyVector
    /\ result = NoResult
    /\ ScalarCall

NextSampleStatistics ==
    \/ \E T \in 1..MaxThreads : SampleStatisticsSetNumberOfThreads(T)
    \/ \E t \in 0..(MaxThreads - 1) : SampleStatisticsFilter(t)
    \/ SampleStatisticsGetResult

SpecSampleStatistics == InitSampleStatistics /\ [][NextSampleStatistics]_vars

\* -------------------------------------------------- CovarianceAccumulator
\* n_ pairs, the means of both variables, the sums m2x_ and m2y_ of their
\* squared differences from the mean, and the sum C_ of the products of
\* the differences.
CovarianceNew ==
    [ n_ |-> 0, meanx_ |-> Whole(0), m2x_ |-> Whole(0), meany_ |-> Whole(0),
      m2y_ |-> Whole(0), C_ |-> Whole(0) ]

\* CovarianceAccumulator::Push( x, y )
CovariancePush(acc, x, y) ==
    LET n == Whole(acc.n_ + 1)
        dx == RSub(Whole(x), acc.meanx_)
        meanx == RAdd(acc.meanx_, RDiv(dx, n))
        dy == RSub(Whole(y), acc.meany_)
        meany == RAdd(acc.meany_, RDiv(dy, n))
    IN [ n_ |-> acc.n_ + 1,
         meanx_ |-> meanx,
         m2x_ |-> RAdd(acc.m2x_, RMul(dx, RSub(Whole(x), meanx))),
         meany_ |-> meany,
         m2y_ |-> RAdd(acc.m2y_, RMul(dy, RSub(Whole(y), meany))),
         C_ |-> RAdd(acc.C_, RMul(dx, RSub(Whole(y), meany))) ]

\* CovarianceAccumulator::operator+=
CovarianceAdd(a, b) ==
    IF a.n_ + b.n_ = 0 THEN a
    ELSE
    LET an == Whole(a.n_)
        bn == Whole(b.n_)
        n == Whole(a.n_ + b.n_)
        dx == RSub(b.meanx_, a.meanx_)
        dy == RSub(b.meany_, a.meany_)
        w == RDiv(RMul(an, bn), n)
    IN [ n_ |-> a.n_ + b.n_,
         meanx_ |-> RAdd(a.meanx_, RDiv(RMul(dx, bn), n)),
         m2x_ |-> RAdd(RAdd(a.m2x_, b.m2x_), RMul(RMul(dx, dx), w)),
         meany_ |-> RAdd(a.meany_, RDiv(RMul(dy, bn), n)),
         m2y_ |-> RAdd(RAdd(a.m2y_, b.m2y_), RMul(RMul(dy, dy), w)),
         C_ |-> RAdd(RAdd(a.C_, b.C_), RMul(RMul(dx, dy), w)) ]

\* CovarianceAccumulator::Covariance
CovarianceOf(acc) ==
    IF acc.n_ > 1 THEN RDiv(acc.C_, Whole(acc.n_ - 1)) ELSE Whole(0)

\* -------------------------------------------------------- dip__Covariance
\* The loops of dip__Covariance::Filter. masked: params.inBuffer.size() > 2.
RECURSIVE CovarianceLoop(_, _, _, _, _, _)
CovarianceLoop(in1, inp2, msk, masked, ii, acc) ==
    IF ii >= Len(in1) THEN acc
    ELSE IF masked
         THEN CovarianceLoop(in1, inp2, msk, masked, ii + 1,
                  IF msk[ii + 1] THEN CovariancePush(acc, in1[ii + 1], inp2[ii + 1])
                                 ELSE acc)
         ELSE CovarianceLoop(in1, inp2, msk, masked, ii + 1,
                  CovariancePush(acc, in1[ii + 1], inp2[ii + 1]))

\* Variant of CovarianceLine that pushes in1 for both variables.
CovarianceLineSame(in1, inp2, msk, masked) ==
    CovarianceLoop(in1, in1, msk, masked, 0, CovarianceNew)

CovarianceLine(in1, inp2, msk, masked) ==
    CovarianceLoop(in1, inp2, msk, masked, 0, CovarianceNew)

\* accArray_[ params.thread ] += vars
CovarianceStore(acc, thread, line) ==
    [ acc EXCEPT ![thread] = CovarianceAdd(@, line) ]

\* dip__Covariance::GetResult
RECURSIVE CovarianceMerge(_, _, _)
CovarianceMerge(acc, ii, merged) ==
    IF ii >= Cardinality(DOMAIN acc) THEN merged
    ELSE CovarianceMerge(acc, ii + 1, CovarianceAdd(merged, acc[ii]))

CovarianceResult(acc) == CovarianceMerge(acc, 1, acc[0])

CovarianceSetNumberOfThreads(T) ==
    /\ op = "Covariance"
    /\ ScanStart(T)
    /\ accArray_' = Resize(accArray_, T, CovarianceNew)
    /\ UNCHANGED << counts_, value_, coord_ >>

CovarianceFilter(t) ==
    /\ op = "Covariance"
    /\ ScanLine(t)
    /\ accArray_' = CovarianceStore(accArray_, t,
           CovarianceLine(img[nextLine], in2.img[nextLine], MaskLine(nextLine),
                          hasMask))
    /\ UNCHANGED << counts_, value_, coord_ >>

CovarianceGetResult ==
    /\ op = "Covariance"
    /\ ScanJoined
    /\ result' = CovarianceResult(accArray_)
    /\ UNCHANGED << counts_, value_, coord_, accArray_ >>

\* Covariance( in1, in2, mask ) on two forged scalar images of the same
\* sizes, in2 being in1 itself among them.
CovarianceSamples == { TypeLowest, TypeHighest }
\* The masks of the sizes s that leave at most one sample out.
CovarianceMasks(s) ==
    { m \in ImagesOf(s, BOOLEAN) :
          Cardinality({ q \in (1..s[2]) \X (1..s[1]) : ~m[q[1]][q[2]] }) <= 1 }

InitCovariance ==
    /\ op = "Covariance"
    /\ sizes \in Shapes
    /\ img \in ImagesOf(sizes, CovarianceSamples)
    /\ in2 \in { [ forged |-> TRUE, sizes |-> sizes, tensor |-> 1, img |-> im ] :
                   im \in ImagesOf(sizes, CovarianceSamples) }
    /\ hasMask \in BOOLEAN
    /\ mask \in IF hasMask THEN CovarianceMasks(sizes) ELSE { << >> }
    /\ forged = TRUE
    /\ tensor = 1
    /\ maskSizes = sizes
    /\ process = << >>
    /\ first_ = FALSE
    /\ pc = "new"
    /\ threads = 0
    /\ nextLine = 1
    /\ assigned = << >>
    /\ counts_ = EmptyVector
    /\ value_ = EmptyVector
    /\ coord_ = EmptyVector
    /\ accArray_ = EmptyVector
    /\ result = NoResult
    /\ output = NoImage
    /\ error = NoError
    /\ NoObject

NextCovariance ==
    \/ \E T \in 1..MaxThreads : CovarianceSetNumberOfThreads(T)
    \/ \E t \in 0..(MaxThreads - 1) : CovarianceFilter(t)
    \/ CovarianceGetResult

SpecCovariance == InitCovariance /\ [][NextCovariance]_vars

\* ------------------------------------------------------ MomentAccumulator
\* The sum m0_ of the values, the sums m1_ of value x position per
\* dimension, and the sums m2_ of value x position x position for the
\* pairs of dimensions << 1, 1 >>, << 1, 2 >>, << 2, 2 >>.
MomentPairs == << << 1, 1 >>, << 1, 2 >>, << 2, 2 >> >>

MomentNew ==
    [ m0_ |-> 0, m1_ |-> [ jj \in 1..nD_ |-> 0 ],
      m2_ |-> [ kk \in 1..Len(MomentPairs) |-> 0 ] ]

\* MomentAccumulator::Push( pos, x )
MomentPush(acc, pos, x) ==
    [ m0_ |-> acc.m0_ + x,
      m1_ |-> [ jj \in 1..nD_ |-> acc.m1_[jj] + pos[jj] * x ],
      m2_ |-> [ kk \in 1..Len(MomentPairs) |->
                  acc.m2_[kk] + pos[MomentPairs[kk][1]] * pos[MomentPairs[kk][2]] * x ] ]

\* MomentAccumulator::operator+=
MomentAdd(a, b) ==
    [ m0_ |-> a.m0_ + b.m0_,
      m1_ |-> [ jj \in 1..nD_ |-> a.m1_[jj] + b.m1_[jj] ],
      m2_ |-> [ kk \in 1..Len(MomentPairs) |-> a.m2_[kk] + b.m2_[kk] ] ]

\* Variant of MomentsLoop that advances pos for the selected samples only.
RECURSIVE MomentsLoopSelectedOnly(_, _, _, _, _, _)
MomentsLoopSelectedOnly(in, msk, masked, pos, ii, acc) ==
    IF ii >= Len(in) THEN acc
    ELSE LET next == [ pos EXCEPT ![dimension] = @ + 1 ]
         IN IF masked /\ ~msk[ii + 1]
            THEN MomentsLoopSelectedOnly(in, msk, masked, pos, ii + 1, acc)
            ELSE MomentsLoopSelectedOnly(in, msk, masked, next, ii + 1,
                     MomentPush(acc, pos, in[ii + 1]))

\* ----------------------------------------------------------- dip__Moments
\* The loops of dip__Moments::Filter. pos is advanced along the processing
\* dimension for every sample, selected or not.
RECURSIVE MomentsLoop(_, _, _, _, _, _)
MomentsLoop(in, msk, masked, pos, ii, acc) ==
    IF ii >= Len(in) THEN acc
    ELSE LET next == [ pos EXCEPT ![dimension] = @ + 1 ]
         IN IF masked
            THEN MomentsLoop(in, msk, masked, next, ii + 1,
                     IF msk[ii + 1] THEN MomentPush(acc, pos, in[ii + 1]) ELSE acc)
            ELSE MomentsLoop(in, msk, masked, next, ii + 1,
                     MomentPush(acc, pos, in[ii + 1]))

MomentsLine(in, msk, masked, position) ==
    MomentsLoop(in, msk, masked, position, 0, MomentNew)

\* accArray_[ params.thread ] += vars
MomentsStore(acc, thread, line) ==
    [ acc EXCEPT ![thread] = MomentAdd(@, line) ]

\* dip__Moments::GetResult
RECURSIVE MomentsMerge(_, _, _)
MomentsMerge(acc, ii, merged) ==
    IF ii >= Cardinality(DOMAIN acc) THEN merged
    ELSE MomentsMerge(acc, ii + 1, MomentAdd(merged, acc[ii]))

MomentsResult(acc) == MomentsMerge(acc, 1, acc[0])

MomentsSetNumberOfThreads(T) ==
    /\ op = "Moments"
    /\ ScanStart(T)
    /\ accArray_' = Resize(accArray_, T, MomentNew)
    /\ UNCHANGED << counts_, value_, coord_ >>

MomentsFilter(t) ==
    /\ op = "Moments"
    /\ ScanLine(t)
    /\ accArray_' = MomentsStore(accArray_, t,
           MomentsLine(img[nextLine], MaskLine(nextLine), hasMask,
                       Position(nextLine)))
    /\ UNCHANGED << counts_, value_, coord_ >>

MomentsGetResult ==
    /\ op = "Moments"
    /\ ScanJoined
    /\ result' = MomentsResult(accArray_)
    /\ UNCHANGED << counts_, value_, coord_, accArray_ >>

\* ---------------------------------------------------------- CumSumFilter
\* CumSumFilter::Filter: sum starts at 0; every sample of the line is added
\* to it and the sum is written at the position of the sample.
RECURSIVE CumSumLoop(_, _, _, _)
CumSumLoop(in, ii, sum, outLine) ==
    IF ii >= Len(in) THEN outLine
    ELSE CumSumLoop(in, ii + 1, sum + in[ii + 1],
                    Append(outLine, sum + in[ii + 1]))

\* Variant of CumSumLine that writes the sum before adding the sample.
RECURSIVE CumSumLoopLate(_, _, _, _)
CumSumLoopLate(in, ii, sum, outLine) ==
    IF ii >= Len(in) THEN outLine
    ELSE CumSumLoopLate(in, ii + 1, sum + in[ii + 1], Append(outLine, sum))

CumSumLineLate(in) == CumSumLoopLate(in, 0, 0, << >>)

CumSumLine(in) == CumSumLoop(in, 0, 0, << >>)

\* ----------------------------------------------------------------- Select
\* Select( in, Image( 0, dataType ), mask, out ): the sample of in where
\* the mask is set, 0 elsewhere.
SelectImage ==
    [ l \in 1..NumLines |->
        [ ii \in 1..LineLength |-> IF MaskAt(l, ii) THEN img[l][ii] ELSE 0 ] ]

\* --------------------------------------------------- Framework::Separable
\* The process array is empty (every dimension is processed) or has one
\* flag per dimension.
ProcessFits == Len(process) \in { 0, Dimensionality }

\* Dimension d (1-based) is processed.
Flagged(d) == process = << >> \/ process[d]

\* The pass the driver starts with, and the pass after pass p.
FirstPass ==
    IF Flagged(1) THEN "pass0" ELSE IF Flagged(2) THEN "pass1" ELSE "done"

\* Variant of NextPass that processes one dimension only.
NextPassSingle(p) == "done"

NextPass(p) == IF p = "pass0" /\ Flagged(2) THEN "pass1" ELSE "done"

\* The lines of a pass: pass0 runs along dimension 0 (one line per y),
\* pass1 along dimension 1 (one line per x).
PassLines(p) == IF p = "pass0" THEN 1..NumLines ELSE 1..LineLength

LineOf(image, p, k) ==
    IF p = "pass0" THEN image[k]
    ELSE [ l \in 1..NumLines |-> image[l][k] ]

WriteLine(image, p, k, line) ==
    IF p = "pass0" THEN [ image EXCEPT ![k] = line ]
    ELSE [ l \in 1..NumLines |-> [ image[l] EXCEPT ![k] = line[l] ] ]

\* A sample of the output image that no line filter has written yet.
Unwritten == "unwritten"

UnwrittenImage ==
    [ l \in 1..NumLines |-> [ ii \in 1..LineLength |-> Unwritten ] ]

\* Variant of PassSource in which the masked branch hands in, not out, to
\* the separable pass.
PassSourceIn(p) ==
    IF p = FirstPass THEN img ELSE output

\* The image a pass reads its lines from. CumulativeSum calls
\* Separable( out, out, ... ) after the selection step and
\* Separable( in, out, ... ) without a mask; after its first pass the
\* driver works in place on out.
PassSource(p) ==
    IF p = FirstPass /\ ~hasMask THEN img ELSE output

\* ---------------------------------------------------------- CumulativeSum
\* CumulativeSum( in, mask, out, process ) up to the first line of the
\* separable pass: the two checks, the selection step when the mask is
\* forged, and the parameter checks of the separable driver.
CumulativeSumCall ==
    /\ op = "CumulativeSum"
    /\ pc = "call"
    /\ IF ~forged
       THEN /\ error' = "IMAGE_NOT_FORGED"
            /\ pc' = "error"
            /\ output' = output
       ELSE IF Dimensionality < 1
       THEN /\ error' = "DIMENSIONALITY_NOT_SUPPORTED"
            /\ pc' = "error"
            /\ output' = output
       ELSE IF hasMask
       THEN IF ~MaskFits
            THEN /\ error' = "SIZES_DONT_MATCH"
                 /\ pc' = "error"
                 /\ output' = output
            ELSE IF ~ProcessFits
            THEN /\ error' = "ARRAY_PARAMETER_WRONG_LENGTH"
                 /\ pc' = "error"
                 /\ output' = SelectImage
            ELSE /\ error' = error
                 /\ pc' = FirstPass
                 /\ output' = SelectImage
       ELSE IF ~ProcessFits
            THEN /\ error' = "ARRAY_PARAMETER_WRONG_LENGTH"
                 /\ pc' = "error"
                 /\ output' = output
            ELSE /\ error' = error
                 /\ pc' = FirstPass
                 /\ output' = IF FirstPass = "done" THEN img ELSE UnwrittenImage
    /\ UNCHANGED << inputs, threads, nextLine, assigned, counts_, value_,
                    coord_, accArray_, result >>

\* One call of CumSumFilter::Filter: the driver hands out the lines of the
\* running pass one after the other (the lines of a pass share no sample).
CumSumFilter ==
    /\ op = "CumulativeSum"
    /\ pc \in { "pass0", "pass1" }
    /\ nextLine \in PassLines(pc)
    /\ output' = WriteLine(output, pc, nextLine,
                           CumSumLine(LineOf(PassSource(pc), pc, nextLine)))
    /\ nextLine' = nextLine + 1
    /\ UNCHANGED << inputs, pc, threads, assigned, counts_, value_, coord_,
                    accArray_, result, error >>

\* All lines of the pass are done: the next pass starts, or the driver
\* returns.
SeparablePassDone ==
    /\ op = "CumulativeSum"
    /\ pc \in { "pass0", "pass1" }
    /\ nextLine \notin PassLines(pc)
    /\ pc' = NextPass(pc)
    /\ nextLine' = 1
    /\ UNCHANGED << inputs, threads, assigned, counts_, value_, coord_,
                    accArray_, result, output, error >>

\* The process arrays of the model: empty, one flag per dimension, or one
\* flag short.
ProcessArrays == { << >> } \cup (BOOLEAN \X BOOLEAN) \cup { << TRUE >> }

\* The sizes of the masks given to CumulativeSum: those of the image, a
\* single pixel to be expanded, or a line one sample too long.
MaskSizesOf(s) == { s, << 1, 1 >>, << s[1] + 1, s[2] >> }

\* The sample values of the images given to CumulativeSum: a negative
\* value, the additive identity and a positive value.
SummedSamples == { TypeLowest, 0, 1 }

InitCumulativeSum ==
    /\ op = "CumulativeSum"
    /\ forged \in BOOLEAN
    /\ sizes \in IF forged THEN Shapes \cup { << >> } ELSE { << >> }
    /\ img \in IF ~forged THEN { NoImage }
               ELSE IF sizes = << >> THEN { << << 1 >> >> }
               ELSE ImagesOf(sizes, SummedSamples)
    /\ tensor = 1
    /\ hasMask \in BOOLEAN
    /\ maskSizes \in IF hasMask /\ sizes # << >> THEN MaskSizesOf(sizes)
                     ELSE { sizes }
    /\ mask \in IF ~hasMask THEN { << >> }
                ELSE IF sizes # << >> /\ MaskFits THEN ImagesOf(maskSizes, BOOLEAN)
                ELSE { << << TRUE >> >> }
    /\ process \in ProcessArrays
    /\ in2 = NoImage
    /\ first_ = FALSE
    /\ pc = "call"
    /\ threads = 0
    /\ nextLine = 1
    /\ assigned = << >>
    /\ counts_ = EmptyVector
    /\ value_ = EmptyVector
    /\ coord_ = EmptyVector
    /\ accArray_ = EmptyVector
    /\ result = NoResult
    /\ output = NoImage
    /\ error = NoError
    /\ NoObject

NextCumulativeSum ==
    \/ CumulativeSumCall
    \/ CumSumFilter
    \/ SeparablePassDone

SpecCumulativeSum == InitCumulativeSum /\ [][NextCumulativeSum]_vars

\* ------------------------------------------- the checks of the functions
\* The error each function raises before it hands its line filter to the
\* scan framework, NoError if none.
\* Variant of CountChecks that tests IsScalar before IsForged.
CountChecksScalarFirst ==
    IF tensor # 1 THEN "IMAGE_NOT_SCALAR"
    ELSE IF ~forged THEN "IMAGE_NOT_FORGED"
    ELSE NoError

CountChecks ==
    IF ~forged THEN "IMAGE_NOT_FORGED"
    ELSE IF tensor # 1 THEN "IMAGE_NOT_SCALAR"
    ELSE NoError

MaximumPixelChecks ==
    IF ~forged THEN "IMAGE_NOT_FORGED"
    ELSE IF tensor # 1 THEN "IMAGE_NOT_SCALAR"
    ELSE NoError

MinimumPixelChecks ==
    IF ~forged THEN "IMAGE_NOT_FORGED"
    ELSE IF tensor # 1 THEN "IMAGE_NOT_SCALAR"
    ELSE NoError

MaximumAndMinimumChecks ==
    IF ~forged THEN "IMAGE_NOT_FORGED" ELSE NoError

\* Variant of SampleStatisticsChecks that also requires a scalar image.
SampleStatisticsChecksScalar ==
    IF ~forged THEN "IMAGE_NOT_FORGED"
    ELSE IF tensor # 1 THEN "IMAGE_NOT_SCALAR"
    ELSE NoError

SampleStatisticsChecks ==
    IF ~forged THEN "IMAGE_NOT_FORGED" ELSE NoError

CenterOfMassChecks ==
    IF ~forged THEN "IMAGE_NOT_FORGED"
    ELSE IF tensor # 1 THEN "IMAGE_NOT_SCALAR"
    ELSE NoError

MomentsChecks ==
    IF ~forged THEN "IMAGE_NOT_FORGED"
    ELSE IF tensor # 1 THEN "IMAGE_NOT_SCALAR"
    ELSE NoError

\* in1.CompareProperties( in2, Sizes + TensorElements )
CompareProperties ==
    IF in2.sizes # sizes THEN "SIZES_DONT_MATCH"
    ELSE IF in2.tensor # tensor THEN "NTENSORELEM_DONT_MATCH"
    ELSE NoError

\* mask.CheckIsMask( in1.Sizes(), DO_ALLOW, DO_THROW )
CheckIsMask == IF MaskFits THEN NoError ELSE "MASK_SIZES_DONT_MATCH"

\* Variant of CovarianceChecks that does not check the mask.
CovarianceChecksNoMask ==
    IF ~forged \/ ~in2.forged THEN "IMAGE_NOT_FORGED"
    ELSE CompareProperties

\* Covariance up to the call of Framework::Scan.
CovarianceChecks ==
    IF ~forged \/ ~in2.forged THEN "IMAGE_NOT_FORGED"
    ELSE IF CompareProperties # NoError THEN CompareProperties
    ELSE IF hasMask THEN CheckIsMask
    ELSE NoError

\* Framework::ScanSingleInput before it dispatches a line: a forged mask
\* must fit the input.
ScanSingleInputChecks == IF hasMask THEN CheckIsMask ELSE NoError

\* A call of a statistics function up to the dispatch of the first line:
\* the function raises err, or else the framework raises its own error, or
\* else the line filter is ready to scan.
Call(err, scanErr) ==
    /\ pc = "call"
    /\ IF err # NoError
       THEN pc' = "error" /\ error' = err
       ELSE IF scanErr # NoError
       THEN pc' = "error" /\ error' = scanErr
       ELSE pc' = "new" /\ error' = error
    /\ UNCHANGED << inputs, threads, nextLine, assigned, counts_, value_,
                    coord_, accArray_, result, output >>

CountCall == op = "Count" /\ Call(CountChecks, ScanSingleInputChecks)
MaximumPixelCall == op = "MaxPixel" /\ Call(MaximumPixelChecks, ScanSingleInputChecks)
MinimumPixelCall == op = "MinPixel" /\ Call(MinimumPixelChecks, ScanSingleInputChecks)
MaximumAndMinimumCall ==
    op = "MaximumAndMinimum" /\ Call(MaximumAndMinimumChecks, ScanSingleInputChecks)
SampleStatisticsCall ==
    op = "SampleStatistics" /\ Call(SampleStatisticsChecks, ScanSingleInputChecks)
CovarianceCall == op = "Covariance" /\ Call(CovarianceChecks, NoError)
CenterOfMassCall == op = "CenterOfMass" /\ Call(CenterOfMassChecks, ScanSingleInputChecks)
MomentsCall == op = "Moments" /\ Call(MomentsChecks, ScanSingleInputChecks)

\* The functions that scan with TensorAsSpatialDim, and those that
\* require a scalar image.
TensorFunctions == { "MaximumAndMinimum", "SampleStatistics", "Covariance" }
ScalarFunctions == { "Count", "MaxPixel", "MinPixel", "CenterOfMass", "Moments" }

\* The sample values of the images of the calls: the two limits of the
\* sample type (binary images for Count; one image per shape for
\* CenterOfMass, whose line sums start from indeterminate values).
CallSamples == { TypeLowest, TypeHighest }

\* The sizes of the sample array of an image with k tensor elements: a
\* scalar image of any shape, or a one-line image whose k tensor elements
\* are the last dimension of the scan (TensorAsSpatialDim).
CallShapes(k) == IF k = 1 THEN Shapes ELSE { s \in Shapes : s[2] = k }

\* The masks given to a call on an image of sample sizes s with k tensor
\* elements: of the sizes of the image, a single pixel, or one sample too
\* long. A mask has no tensor dimension.
CallMaskSizes(s, k) ==
    { << s[1], s[2] \div k >>, << 1, 1 >>, << s[1] + 1, s[2] \div k >> }

\* The second input of Covariance: an image like the first (of constant
\* value), a longer one, one with another number of tensor elements, or
\* one that is not forged.
SecondInputs(s, k) ==
    { [ forged |-> TRUE, sizes |-> s, tensor |-> k, img |-> im ] :
          im \in ImagesOf(s, { TypeHighest }) }
    \cup { [ forged |-> TRUE, sizes |-> << s[1] + 1, s[2] >>, tensor |-> k,
             img |-> NoImage ],
           [ forged |-> TRUE, sizes |-> s, tensor |-> k + 1, img |-> NoImage ],
           [ forged |-> FALSE, sizes |-> s, tensor |-> k, img |-> NoImage ] }

InitCall ==
    /\ op \in ScalarFunctions \cup TensorFunctions
    /\ forged \in BOOLEAN
    /\ tensor \in 1..2
    /\ sizes \in CallShapes(tensor)
    /\ img \in IF ~forged THEN { NoImage }
               ELSE IF op = "Count" THEN ImagesOf(sizes, BOOLEAN)
               ELSE IF op = "CenterOfMass" THEN ImagesOf(sizes, { TypeHighest })
               ELSE ImagesOf(sizes, CallSamples)
    /\ hasMask \in BOOLEAN
    /\ maskSizes \in IF hasMask THEN CallMaskSizes(sizes, tensor) ELSE { sizes }
    /\ mask \in IF ~hasMask THEN { << >> }
                ELSE IF MaskFits THEN ImagesOf(maskSizes, BOOLEAN)
                ELSE { << << TRUE >> >> }
    /\ in2 \in IF op = "Covariance" THEN SecondInputs(sizes, tensor)
               ELSE { NoImage }
    /\ first_ \in IF op \in { "MaxPixel", "MinPixel" } THEN BOOLEAN ELSE { FALSE }
    /\ process = << >>
    /\ pc = "call"
    /\ threads = 0
    /\ nextLine = 1
    /\ assigned = << >>
    /\ counts_ = EmptyVector
    /\ value_ = EmptyVector
    /\ coord_ = EmptyVector
    /\ accArray_ = EmptyVector
    /\ result = NoResult
    /\ output = NoImage
    /\ error = NoError
    /\ NoObject

NextStatistics ==
    \/ \E T \in 1..MaxThreads : SampleStatisticsSetNumberOfThreads(T)
    \/ \E t \in 0..(MaxThreads - 1) : SampleStatisticsFilter(t)
    \/ SampleStatisticsGetResult
    \/ \E T \in 1..MaxThreads : CovarianceSetNumberOfThreads(T)
    \/ \E t \in 0..(MaxThreads - 1) : CovarianceFilter(t)
    \/ CovarianceGetResult
    \/ \E T \in 1..MaxThreads : MomentsSetNumberOfThreads(T)
    \/ \E t \in 0..(MaxThreads - 1) : MomentsFilter(t)
    \/ MomentsGetResult

NextCall ==
    \/ CountCall
    \/ MaximumPixelCall
    \/ MinimumPixelCall
    \/ MaximumAndMinimumCall
    \/ SampleStatisticsCall
    \/ CovarianceCall
    \/ CenterOfMassCall
    \/ MomentsCall
    \/ NextCount
    \/ NextMaxMinPixel
    \/ NextAccumulate
    \/ NextStatistics

\* Every function of statistics.cpp from its call on.
SpecCall ==
    (InitCall \/ InitCumulativeSum) /\ [][NextCall \/ NextCumulativeSum]_vars
\* ------------------------------------------------------------- dip_image
\* The dip_image object of dip_image.m (MATLAB): Data is modelled by the
\* size of its tensor dimension, size( img.Data, 2 ).
\* An image has up to MaxElements tensor elements, and the numbers assigned
\* to TensorShape are in -MaxElements..MaxElements.
MaxElements == 6

\* The object as its property defaults make it (Data = []).
DefaultObject ==
    [ Data |-> 0, TrailingSingletons |-> 0,
      TensorShapeInternal |-> "column vector",
      TensorSizeInternal |-> << 1, 1 >> ]

\* isstring( in ): ischar( in ) && isrow( in )
isstring(in) == in.class = "char"

\* prod( x ) of a row of two numbers
prod(x) == x[1] * x[2]

\* ceil( sqrt( nelem )) for nelem >= 0
CeilSqrt(nelem) == CHOOSE r \in 0..nelem : r * r >= nelem /\ \A q \in 0..(r - 1) : q * q < nelem

\* mod( b / a, 1 ) == 0: the quotient is a whole number (nothing divided
\* by 0 is: Inf and NaN have mod( x, 1 ) = NaN).
WholeQuotient(b, a) == a # 0 /\ b % Abs(a) = 0
\* b / a where it is whole
Divide(b, a) == IF a < 0 THEN 0 - (b \div Abs(a)) ELSE b \div a

\* ( sqrt( 1 + 8 * nelem ) - 1 ) / 2 is whole: nelem = rows * ( rows + 1 ) / 2
Triangular(nelem) == \E r \in 0..nelem : r * (r + 1) = 2 * nelem
TriangularRows(nelem) == CHOOSE r \in 0..nelem : r * (r + 1) = 2 * nelem

BadValue == "Bad value for TensorShape property"
NotConsistent == "TensorShape value not consistent with number of tensor elements"
NoSize == << >>

\* set.TensorShape up to the choice of tsize: the error raised, the shape
\* and tsize.
TensorShapeSize(obj, ts) ==
    LET nelem == obj.Data
        Failed(msg) == [ error |-> msg, tshape |-> "", tsize |-> NoSize ]
        Sized(sh, sz) == [ error |-> NoError, tshape |-> sh, tsize |-> sz ]
    IN IF isstring(ts)
       THEN CASE ts.text = "column vector" -> Sized(ts.text, << nelem, 1 >>)
              [] ts.text = "row vector" -> Sized(ts.text, << 1, nelem >>)
              [] ts.text \in { "column-major matrix", "row-major matrix" } ->
                     IF prod(obj.TensorSizeInternal) = nelem
                     THEN Sized(ts.text, obj.TensorSizeInternal)
                     ELSE LET rows == CeilSqrt(nelem)
                          IN IF ~WholeQuotient(nelem, rows)
                             THEN Failed(NotConsistent)
                             ELSE Sized(ts.text, << rows, Divide(nelem, rows) >>)
              [] ts.text = "diagonal matrix" -> Sized(ts.text, << nelem, nelem >>)
              [] ts.text \in { "symmetric matrix", "upper triangular matrix",
                                "lower triangular matrix" } ->
                     IF ~Triangular(nelem)
                     THEN Failed(NotConsistent)
                     ELSE Sized(ts.text, << TriangularRows(nelem),
                                             TriangularRows(nelem) >>)
              [] OTHER -> Failed(BadValue)
       ELSE IF ts.class # "double" \/ Len(ts.numbers) = 0 \/ Len(ts.numbers) > 2
            THEN Failed(BadValue)
            ELSE IF Len(ts.numbers) = 1
                 THEN IF ~WholeQuotient(nelem, ts.numbers[1])
                      THEN Failed(NotConsistent)
                      ELSE Sized("column-major matrix",
                                 << ts.numbers[1], Divide(nelem, ts.numbers[1]) >>)
                 ELSE IF prod(ts.numbers) # nelem
                      THEN Failed(NotConsistent)
                      ELSE Sized("column-major matrix", ts.numbers)

\* The end of set.TensorShape: a matrix of one column or one row is a vector.
VectorShape(sh, tsize) ==
    IF tsize[2] = 1 THEN "column vector"
    ELSE IF tsize[1] = 1 THEN "row vector"
    ELSE sh

\* img.TensorShape = ts (set.TensorShape); an error leaves img as it was.
SetTensorShape(ts) ==
    /\ op = "dip_image"
    /\ LET r == TensorShapeSize(dip_image, ts)
       IN /\ error' = r.error
          /\ dip_image' =
                 IF r.error # NoError THEN dip_image
                 ELSE [ dip_image EXCEPT
                            !.TensorShapeInternal = VectorShape(r.tshape, r.tsize),
                            !.TensorSizeInternal = r.tsize ]
    /\ tshape' = ts
    /\ pc' = "set.TensorShape"
    /\ UNCHANGED << op, sizes, img, hasMask, mask, first_, forged, tensor,
                    maskSizes, in2, process, threads, nextLine, assigned,
                    counts_, value_, coord_, accArray_, result, output, lineFilter, instance_ >>

\* img.Array = data (set.Array): data is given by whether it is real and
\* numeric or logical, and by size( data, 2 ).
SetArray(data) ==
    /\ op = "dip_image"
    /\ IF ~data.real
       THEN /\ error' = "Pixel data must be real, numeric or logical"
            /\ UNCHANGED dip_image
       ELSE /\ error' = NoError
            /\ dip_image' = [ Data |-> data.size2, TrailingSingletons |-> 0,
                              TensorShapeInternal |-> "column vector",
                              TensorSizeInternal |-> << data.size2, 1 >> ]
    /\ pc' = "set.Array"
    /\ UNCHANGED << op, sizes, img, hasMask, mask, first_, forged, tensor,
                    maskSizes, in2, process, threads, nextLine, assigned,
                    counts_, value_, coord_, accArray_, result, output, tshape, lineFilter, instance_ >>

\* The values assigned to TensorShape: the shape strings and another
\* string (text), rows of none to three whole numbers (numbers; the rows
\* of two have a product within the range), and a value that is neither a
\* string nor numeric.
ShapeStrings ==
    { "column vector", "row vector", "column-major matrix", "row-major matrix",
      "diagonal matrix", "symmetric matrix", "upper triangular matrix",
      "lower triangular matrix" }
Numbers == (0 - MaxElements)..MaxElements
NoShape == [ class |-> "none", text |-> "", numbers |-> << >> ]
TensorShapes ==
    { [ class |-> "char", text |-> str, numbers |-> << >> ] :
          str \in ShapeStrings \cup { "matrix" } }
    \cup { [ class |-> "double", text |-> "", numbers |-> v ] :
               v \in { << >> } \cup { << a >> : a \in Numbers }
                     \cup { v \in Numbers \X Numbers : Abs(v[1] * v[2]) <= MaxElements }
                     \cup { << 1, 1, 1 >> } }
    \cup { [ class |-> "cell", text |-> "", numbers |-> << >> ] }
Arrays == [ real : BOOLEAN, size2 : 0..MaxElements ]

InitDipImage ==
    /\ instance_ = NoImage
    /\ lineFilter = NoImage
    /\ op = "dip_image"
    /\ dip_image = DefaultObject
    /\ tshape = NoShape
    /\ pc = "new"
    /\ error = NoError
    /\ sizes = << 1, 1 >>
    /\ img = NoImage
    /\ hasMask = FALSE
    /\ mask = << >>
    /\ first_ = FALSE
    /\ forged = FALSE
    /\ tensor = 1
    /\ maskSizes = sizes
    /\ in2 = NoImage
    /\ process = << >>
    /\ threads = 0
    /\ nextLine = 1
    /\ assigned = << >>
    /\ counts_ = EmptyVector
    /\ value_ = EmptyVector
    /\ coord_ = EmptyVector
    /\ accArray_ = EmptyVector
    /\ result = NoResult
    /\ output = NoImage

NextDipImage ==
    \/ \E ts \in TensorShapes : SetTensorShape(ts)
    \/ \E data \in Arrays : SetArray(data)

SpecDipImage == InitDipImage /\ [][NextDipImage]_vars



\* ------------------------- dip__MaximumAndMinimum::Filter on a buffer
\* One call of Filter without a mask, statement by statement, on a line of
\* bufferLength samples that lie inStride samples apart in memory. Pointers
\* are offsets (in samples) from params.inBuffer[ 0 ].buffer; lineFilter.buffer
\* maps the offsets of the line to the samples.
\* Strides are in -MaxStride..MaxStride.
MaxStride == 2
Strides == (0 - MaxStride)..MaxStride

\* dip::uint is an unsigned integer type; the model gives it 16 bits.
UintModulus == 2^16

\* The offsets of the samples of a line.
LineOffsets(bufferLength, stride) == { k * stride : k \in 0..(bufferLength - 1) }

\* Variant of PairLoopBound that lets the pairs run to the end of the line.
PairLoopBoundLong(bufferLength) == bufferLength

\* bufferLength - 1, in dip::uint
PairLoopBound(bufferLength) == (bufferLength - 1) % UintModulus

\* Reading *in at an offset that is no sample of the line is undefined
\* behaviour: the call ends in any way, with any accumulator.
AnyMinMax == [ min_ : DfloatLowest..DfloatMax, max_ : DfloatLowest..DfloatMax ]
MaxMinUndefined ==
    /\ pc' = "undefined"
    /\ \E any \in AnyMinMax : lineFilter' = [ lineFilter EXCEPT !.vars = any ]
    /\ UNCHANGED accArray_

\* for( ; ii < bufferLength - 1; ii += 2 ) { ... }: one iteration.
MaxMinPairIteration ==
    /\ op = "dip__MaximumAndMinimum::Filter"
    /\ pc = "for"
    /\ lineFilter.ii < PairLoopBound(lineFilter.bufferLength)
    /\ LET first == lineFilter.in
           second == lineFilter.in + lineFilter.inStride
           line == LineOffsets(lineFilter.bufferLength, lineFilter.inStride)
       IN IF first \in line /\ second \in line
          THEN /\ lineFilter' =
                      [ lineFilter EXCEPT
                            !.vars = MinMaxPush2(@, lineFilter.buffer[first],
                                                 lineFilter.buffer[second]),
                            !.pushed = @ \o << first, second >>,
                            !.in = second + lineFilter.inStride,
                            !.ii = (@ + 2) % UintModulus ]
               /\ UNCHANGED << pc, accArray_ >>
          ELSE MaxMinUndefined
    /\ UNCHANGED << op, sizes, img, hasMask, mask, first_, forged, tensor,
                    maskSizes, in2, process, threads, nextLine, assigned,
                    counts_, value_, coord_, result, output, error,
                    dip_image, tshape, instance_ >>

\* The end of the loop: if( ii < bufferLength ) { vars.Push( *in ); } and
\* accArray_[ params.thread ] += vars.
MaxMinLastSample ==
    /\ op = "dip__MaximumAndMinimum::Filter"
    /\ pc = "for"
    /\ ~(lineFilter.ii < PairLoopBound(lineFilter.bufferLength))
    /\ LET line == LineOffsets(lineFilter.bufferLength, lineFilter.inStride)
           single == lineFilter.ii < lineFilter.bufferLength
           after == IF single
                    THEN [ lineFilter EXCEPT
                               !.vars = MinMaxPush(@, lineFilter.buffer[lineFilter.in]),
                               !.pushed = Append(@, lineFilter.in) ]
                    ELSE lineFilter
       IN IF single /\ lineFilter.in \notin line
          THEN MaxMinUndefined
          ELSE /\ lineFilter' = after
               /\ accArray_' = MaxMinStore(accArray_, lineFilter.thread, after.vars)
               /\ pc' = "done"
    /\ UNCHANGED << op, sizes, img, hasMask, mask, first_, forged, tensor,
                    maskSizes, in2, process, threads, nextLine, assigned,
                    counts_, value_, coord_, result, output, error,
                    dip_image, tshape, instance_ >>

\* The call Filter( params ) of thread 0 on any line of 0..MaxPixels
\* samples, up to the start of the loop.
InitMaxMinLine ==
    /\ instance_ = NoImage
    /\ op = "dip__MaximumAndMinimum::Filter"
    /\ \E n \in 0..MaxPixels : \E stride \in Strides :
           \E buf \in [ LineOffsets(n, stride) -> Samples ] :
               lineFilter = [ bufferLength |-> n, inStride |-> stride,
                              buffer |-> buf, thread |-> 0, ii |-> 0, in |-> 0,
                              vars |-> MinMaxNew, pushed |-> << >> ]
    /\ pc = "for"
    /\ accArray_ = Resize(EmptyVector, 1, MinMaxNew)
    /\ threads = 1
    /\ sizes = << 1, 1 >>
    /\ img = NoImage
    /\ hasMask = FALSE
    /\ mask = << >>
    /\ first_ = FALSE
    /\ forged = TRUE
    /\ tensor = 1
    /\ maskSizes = sizes
    /\ in2 = NoImage
    /\ process = << >>
    /\ nextLine = 1
    /\ assigned = << >>
    /\ counts_ = EmptyVector
    /\ value_ = EmptyVector
    /\ coord_ = EmptyVector
    /\ result = NoResult
    /\ output = NoImage
    /\ error = NoError
    /\ dip_image = NoImage
    /\ tshape = NoImage

NextMaxMinLine ==
    \/ MaxMinPairIteration
    \/ MaxMinLastSample

SpecMaxMinLine == InitMaxMinLine /\ [][NextMaxMinLine]_vars

\* ------------------------------------- CumSumFilter::Filter on its buffers
\* The strides of the buffers of an output image: its samples are distinct.
OutStrides == Strides \ { 0 }

\* The buffer that params.outBuffer.buffer points into: that of the input,
\* when the driver passes the same image as input and as output.
OutBufferOf(aliased) == IF aliased THEN "in" ELSE "out"

\* Variant of CumSumRead that reads the sample before the one in points at.
CumSumReadBehind(lf) ==
    lf.buffers["in"][IF lf.ii > 0 THEN lf.in - lf.inStride ELSE lf.in]

\* *in
CumSumRead(lf) == lf.buffers["in"][lf.in]

\* sum += *in;
CumSumAdd ==
    /\ op = "CumSumFilter::Filter"
    /\ pc = "sum"
    /\ lineFilter.ii < lineFilter.length
    /\ lineFilter' = [ lineFilter EXCEPT
                           !.sum = @ + CumSumRead(lineFilter),
                           !.read = Append(@, << lineFilter.in, CumSumRead(lineFilter) >>) ]
    /\ pc' = "store"
    /\ UNCHANGED << op, sizes, img, hasMask, mask, first_, forged, tensor,
                    maskSizes, in2, process, threads, nextLine, assigned,
                    counts_, value_, coord_, accArray_, result, output, error,
                    dip_image, tshape, instance_ >>

\* *out = sum; in += inStride; out += outStride; and ++ii
CumSumStore ==
    /\ op = "CumSumFilter::Filter"
    /\ pc = "store"
    /\ lineFilter' = [ lineFilter EXCEPT
                           !.buffers[OutBufferOf(lineFilter.aliased)][lineFilter.out] =
                               lineFilter.sum,
                           !.written = Append(@, << lineFilter.out, lineFilter.sum >>),
                           !.in = @ + lineFilter.inStride,
                           !.out = @ + lineFilter.outStride,
                           !.ii = @ + 1 ]
    /\ pc' = "sum"
    /\ UNCHANGED << op, sizes, img, hasMask, mask, first_, forged, tensor,
                    maskSizes, in2, process, threads, nextLine, assigned,
                    counts_, value_, coord_, accArray_, result, output, error,
                    dip_image, tshape, instance_ >>

\* The end of the loop: ii < length is false.
CumSumReturn ==
    /\ op = "CumSumFilter::Filter"
    /\ pc = "sum"
    /\ ~(lineFilter.ii < lineFilter.length)
    /\ pc' = "done"
    /\ UNCHANGED << lineFilter, op, sizes, img, hasMask, mask, first_, forged, tensor,
                    maskSizes, in2, process, threads, nextLine, assigned,
                    counts_, value_, coord_, accArray_, result, output, error,
                    dip_image, tshape, instance_ >>

\* The call Filter( params ) on any line of 0..MaxPixels samples, with the
\* output buffer being the input buffer (same pointer, same stride) or a
\* buffer of its own, up to the start of the loop.
InitCumSumLine ==
    /\ instance_ = NoImage
    /\ op = "CumSumFilter::Filter"
    /\ \E n \in 0..MaxPixels : \E stride \in OutStrides : \E aliased \in BOOLEAN :
       \E outStride \in IF aliased THEN { stride } ELSE { 1, -stride } :
       \E buf \in [ LineOffsets(n, stride) -> Samples ] :
           lineFilter = [ length |-> n, inStride |-> stride, outStride |-> outStride,
                          aliased |-> aliased,
                          samples |-> [ k \in 1..n |-> buf[(k - 1) * stride] ],
                          buffers |-> [ in |-> buf,
                                        out |-> IF aliased THEN [ k \in {} |-> 0 ]
                                                ELSE [ k \in LineOffsets(n, outStride)
                                                           |-> TypeHighest ] ],
                          in |-> 0, out |-> 0, sum |-> 0, ii |-> 0,
                          read |-> << >>, written |-> << >> ]
    /\ pc = "sum"
    /\ accArray_ = EmptyVector
    /\ threads = 1
    /\ sizes = << 1, 1 >>
    /\ img = NoImage
    /\ hasMask = FALSE
    /\ mask = << >>
    /\ first_ = FALSE
    /\ forged = TRUE
    /\ tensor = 1
    /\ maskSizes = sizes
    /\ in2 = NoImage
    /\ process = << >>
    /\ nextLine = 1
    /\ assigned = << >>
    /\ counts_ = EmptyVector
    /\ value_ = EmptyVector
    /\ coord_ = EmptyVector
    /\ result = NoResult
    /\ output = NoImage
    /\ error = NoError
    /\ dip_image = NoImage
    /\ tshape = NoImage

NextCumSumLine ==
    \/ CumSumAdd
    \/ CumSumStore
    \/ CumSumReturn

SpecCumSumLine == InitCumSumLine /\ [][NextCumSumLine]_vars

\* ----------------------------------------------------------- ProxyManager
\* The windows the program holds (Window*) and the function pointers it
\* registers as callbacks; a null function pointer is 0.
Windows == { "window1", "window2" }
MaxCallbacks == 2
Callbacks == 1..MaxCallbacks
NullCallback == 0
Names == { "name" }

\* The three callback maps of the ProxyManager.
CallbackMaps ==
    { "swap_buffers_callbacks_", "set_window_title_callbacks_",
      "refresh_window_callbacks_" }

\* std::map: map[ key ] = value, map.erase( key ), map.count( key ), and
\* map[ key ] as a value, which adds a value-initialised entry for a key
\* the map does not hold.
MapAssign(map, key, value) ==
    [ k \in (DOMAIN map) \cup { key } |-> IF k = key THEN value ELSE map[k] ]
MapErase(map, key) == [ k \in (DOMAIN map) \ { key } |-> map[k] ]
MapCount(map, key) == IF key \in DOMAIN map THEN 1 ELSE 0
MapSubscript(map, key, initial) ==
    IF key \in DOMAIN map THEN map ELSE MapAssign(map, key, initial)

\* No call of a callback.
NoCalls == << >>

\* Everything but the ProxyManager and the calls it makes stays as it is.
ProxyFrame ==
    UNCHANGED << op, sizes, img, hasMask, mask, first_, forged, tensor,
                 maskSizes, in2, process, dip_image, tshape, lineFilter, pc,
                 threads, nextLine, assigned, counts_, value_, coord_,
                 accArray_, output, error >>

\* createWindow( window ): windows_[ window.get() ] = window
createWindow(window) ==
    /\ op = "ProxyManager"
    /\ instance_' = [ instance_ EXCEPT
                          !.windows_ = MapAssign(@, window, window),
                          !.created = @ \cup { window },
                          !.released = @ \ { window } ]
    /\ result' = NoCalls
    /\ ProxyFrame

\* activeWindows(): windows_.size()
activeWindows == Cardinality(DOMAIN instance_.windows_)

\* release( window ): windows_.erase( window )
release(window) ==
    /\ op = "ProxyManager"
    /\ instance_' = [ instance_ EXCEPT
                          !.windows_ = MapErase(@, window),
                          !.created = @ \ { window },
                          !.released = @ \cup { window } ]
    /\ result' = NoCalls
    /\ ProxyFrame

\* setSwapBuffersCallback, setWindowTitleCallback and
\* setRefreshWindowCallback( window, cb ): map[ window ] = cb
setCallback(map, window, cb) ==
    /\ op = "ProxyManager"
    /\ instance_' = [ instance_ EXCEPT ![map] = MapAssign(@, window, cb) ]
    /\ result' = NoCalls
    /\ ProxyFrame

setSwapBuffersCallback(window, cb) ==
    setCallback("swap_buffers_callbacks_", window, cb)

setWindowTitleCallback(window, cb) ==
    setCallback("set_window_title_callbacks_", window, cb)

setRefreshWindowCallback(window, cb) ==
    setCallback("refresh_window_callbacks_", window, cb)

\* Variant of Registered that is true of every window.
RegisteredAlways(map, window) == TRUE

\* if( map.count( window ))
Registered(map, window) == MapCount(instance_[map], window) # 0

\* swapBuffers, setWindowTitle and refreshWindow( window ):
\* if( map.count( window )) map[ window ]( ... );
invokeCallback(map, window, name) ==
    /\ op = "ProxyManager"
    /\ IF Registered(map, window)
       THEN LET after == MapSubscript(instance_[map], window, NullCallback)
            IN /\ instance_' = [ instance_ EXCEPT ![map] = after ]
               /\ result' = << [ map |-> map, window |-> window,
                                 callback |-> after[window], name |-> name ] >>
       ELSE /\ instance_' = instance_
            /\ result' = NoCalls
    /\ ProxyFrame

swapBuffers(window) == invokeCallback("swap_buffers_callbacks_", window, "")

setWindowTitle(window, name) ==
    invokeCallback("set_window_title_callbacks_", window, name)

refreshWindow(window) == invokeCallback("refresh_window_callbacks_", window, "")

\* The ProxyManager as constructed: its maps are empty. created and
\* released are the history of its windows: those created and not released
\* since, and those released and not created since.
InitProxyManager ==
    /\ op = "ProxyManager"
    /\ instance_ = [ windows_ |-> << >>,
                     swap_buffers_callbacks_ |-> << >>,
                     set_window_title_callbacks_ |-> << >>,
                     refresh_window_callbacks_ |-> << >>,
                     created |-> {}, released |-> {} ]
    /\ result = NoCalls
    /\ pc = "idle"
    /\ sizes = << 1, 1 >>
    /\ img = NoImage
    /\ hasMask = FALSE
    /\ mask = << >>
    /\ first_ = FALSE
    /\ forged = TRUE
    /\ tensor = 1
    /\ maskSizes = sizes
    /\ in2 = NoImage
    /\ process = << >>
    /\ threads = 0
    /\ nextLine = 1
    /\ assigned = << >>
    /\ counts_ = EmptyVector
    /\ value_ = EmptyVector
    /\ coord_ = EmptyVector
    /\ accArray_ = EmptyVector
    /\ output = NoImage
    /\ error = NoError
    /\ dip_image = NoImage
    /\ tshape = NoImage
    /\ lineFilter = NoImage

NextProxyManager ==
    \/ \E window \in Windows : createWindow(window)
    \/ \E window \in Windows : release(window)
    \/ \E window \in Windows : \E cb \in Callbacks : setSwapBuffersCallback(window, cb)
    \/ \E window \in Windows : \E cb \in Callbacks : setWindowTitleCallback(window, cb)
    \/ \E window \in Windows : \E cb \in Callbacks : setRefreshWindowCallback(window, cb)
    \/ \E window \in Windows : swapBuffers(window)
    \/ \E window \in Windows : \E name \in Names : setWindowTitle(window, name)
    \/ \E window \in Windows : refreshWindow(window)

SpecProxyManager == InitProxyManager /\ [][NextProxyManager]_vars

\* ------------------------------------- BufferToImage and ImageToBuffer
\* The data types of the model, with the format character of their sample
\* type (py::format_descriptor) and the size of a sample in bytes.
DataTypes == { "DT_BIN", "DT_UINT8", "DT_UINT16", "DT_SFLOAT" }

FormatOf(dataType) ==
    CASE dataType = "DT_BIN" -> "?"
      [] dataType = "DT_UINT8" -> "B"
      [] dataType = "DT_UINT16" -> "H"
      [] dataType = "DT_SFLOAT" -> "f"

SizeOf(dataType) ==
    CASE dataType = "DT_BIN" -> 1
      [] dataType = "DT_UINT8" -> 1
      [] dataType = "DT_UINT16" -> 2
      [] dataType = "DT_SFLOAT" -> 4

\* A format that is not that of a numeric type.
ObjectFormat == "O"

\* The quotient of the integer division of C++, which truncates.
TruncatedQuotient(a, b) == IF a >= 0 THEN a \div b ELSE -((-a) \div b)

\* A last dimension of fewer samples than this is taken as the tensor
\* dimension.
TensorLimit == 10

\* dip::Image::SpatialToTensor(): the last dimension becomes the tensor
\* dimension.
SpatialToTensor(image) ==
    LET n == Len(image.sizes)
    IN [ image EXCEPT !.tensorElements = image.sizes[n],
                      !.tensorStride = image.strides[n],
                      !.sizes = SubSeq(@, 1, n - 1),
                      !.strides = SubSeq(@, 1, n - 1) ]

\* Variant of TensorStrideOut that gives the tensor stride in bytes.
TensorStrideOutBytes(image) == image.tensorStride * SizeOf(image.dataType)

\* strides.push_back( image.TensorStride() )
TensorStrideOut(image) == image.tensorStride

\* ImageToBuffer( image )
ImageToBuffer(image) ==
    LET itemsize == SizeOf(image.dataType)
        strides == [ ii \in 1..Len(image.strides) |-> image.strides[ii] * itemsize ]
        scalar == image.tensorElements = 1
    IN [ itemsize |-> itemsize,
         format |-> FormatOf(image.dataType),
         shape |-> IF scalar THEN image.sizes
                   ELSE Append(image.sizes, image.tensorElements),
         strides |-> IF scalar THEN strides
                     ELSE Append(strides, TensorStrideOut(image)) ]

\* The strides of a buffer in samples, as BufferToImage computes them.
StridesIn(info) ==
    [ ii \in 1..Len(info.strides) |-> TruncatedQuotient(info.strides[ii], info.itemsize) ]

\* The error BufferToImage raises, NoError if none.
BufferToImageError(info) ==
    IF info.format \notin { FormatOf(dt) : dt \in DataTypes }
    THEN "Image data is not numeric"
    ELSE IF \E ii \in 1..Len(info.strides) :
                StridesIn(info)[ii] * info.itemsize # info.strides[ii]
    THEN "Cannot create image out of an array where strides are not in whole pixels"
    ELSE NoError

\* The image BufferToImage makes of a buffer it accepts, of one dimension
\* or more.
BufferToImage(info) ==
    LET out == [ dataType |-> CHOOSE dt \in DataTypes : FormatOf(dt) = info.format,
                 sizes |-> info.shape,
                 strides |-> StridesIn(info),
                 tensorElements |-> 1,
                 tensorStride |-> 1 ]
    IN IF out.sizes[Len(out.sizes)] < TensorLimit THEN SpatialToTensor(out) ELSE out

\* Everything but the image, the buffer and the image made of it stays as
\* it is.
BufferFrame ==
    UNCHANGED << op, sizes, hasMask, mask, first_, forged, tensor, maskSizes,
                 in2, process, dip_image, tshape, lineFilter, instance_,
                 threads, nextLine, assigned, counts_, value_, coord_,
                 accArray_ >>

\* The call ImageToBuffer( image ) of the buffer protocol.
ImageToBufferCall ==
    /\ op = "Image"
    /\ pc = "image"
    /\ result' = ImageToBuffer(img)
    /\ pc' = "buffer"
    /\ UNCHANGED << img, output, error >>
    /\ BufferFrame

\* The call BufferToImage( buf ). sizes.back() of a buffer of no dimension
\* reads outside the array: the call ends in any way.
BufferToImageCall ==
    /\ op = "Image"
    /\ pc = "buffer"
    /\ IF BufferToImageError(result) # NoError
       THEN /\ error' = BufferToImageError(result)
            /\ pc' = "error"
            /\ output' = output
       ELSE IF Len(result.shape) = 0
       THEN /\ error' = error
            /\ pc' = "undefined"
            /\ output' = output
       ELSE /\ error' = error
            /\ pc' = "done"
            /\ output' = BufferToImage(result)
    /\ UNCHANGED << img, result >>
    /\ BufferFrame

\* The forged images of the model: up to MaxDims dimensions, scalar or with
\* a tensor dimension, and the buffers of Python objects.
MaxDims == 2
ImageSizes == { 2, TensorLimit - 1, TensorLimit }
TensorSizes == { 1, 2, TensorLimit }
Arrays1D(n, S) == [ 1..n -> S ]
ForgedImages(n) ==
    [ dataType : DataTypes, sizes : Arrays1D(n, ImageSizes),
      strides : Arrays1D(n, Strides), tensorElements : { 1 },
      tensorStride : { 1 } ]
    \cup [ dataType : DataTypes, sizes : Arrays1D(n, ImageSizes),
           strides : Arrays1D(n, Strides), tensorElements : TensorSizes \ { 1 },
           tensorStride : 1..MaxStride ]
ByteStrides == (-2 * MaxStride)..(2 * MaxStride)
PythonBuffers(n) ==
    UNION { { [ itemsize |-> SizeOf(dt), format |-> f, shape |-> sh, strides |-> st ] :
                sh \in Arrays1D(n, { 2, TensorLimit }), st \in Arrays1D(n, ByteStrides),
                f \in { FormatOf(dt), ObjectFormat } } :
            dt \in DataTypes }

InitImage ==
    /\ op = "Image"
    /\ \/ /\ pc = "image"
          /\ \E n \in 0..MaxDims : img \in ForgedImages(n)
          /\ result = [ itemsize |-> 1, format |-> ObjectFormat, shape |-> << >>,
                        strides |-> << >> ]
       \/ /\ pc = "buffer"
          /\ img = NoImage
          /\ \E n \in 1..MaxDims : result \in PythonBuffers(n)
    /\ output = NoImage
    /\ error = NoError
    /\ sizes = << 1, 1 >>
    /\ hasMask = FALSE
    /\ mask = << >>
    /\ first_ = FALSE
    /\ forged = TRUE
    /\ tensor = 1
    /\ maskSizes = sizes
    /\ in2 = NoImage
    /\ process = << >>
    /\ threads = 0
    /\ nextLine = 1
    /\ assigned = << >>
    /\ counts_ = EmptyVector
    /\ value_ = EmptyVector
    /\ coord_ = EmptyVector
    /\ accArray_ = EmptyVector
    /\ dip_image = NoImage
    /\ tshape = NoImage
    /\ lineFilter = NoImage
    /\ instance_ = NoImage

NextImage ==
    \/ ImageToBufferCall
    \/ BufferToImageCall

SpecImage == InitImage /\ [][NextImage]_vars

\* ------------------------------------------- all the statistics functions
Init == InitCount \/ InitMaxMinPixel \/ InitAccumulate

Next == NextCount \/ NextMaxMinPixel \/ NextAccumulate

Spec == Init /\ [][Next]_vars

\* Every statistics function on the images whose samples are the two
\* limits of the sample type (the slot a Filter call writes depends on
\* params.thread alone, not on the sample values).
InitSlots ==
    /\ Init
    /\ op # "Count" => \A l \in Lines : \A ii \in 1..LineLength :
                           img[l][ii] \in { TypeLowest, TypeHighest }

SpecSlots == InitSlots /\ [][Next]_vars

\* =================================================== the checked claims
Pixels == Lines \X (1..LineLength)
Selected(p) == (~hasMask) \/ MaskAt(p[1], p[2])
SelectedPixels == { p \in Pixels : Selected(p) }
Value(p) == img[p[1]][p[2]]
\* The coordinates << x, y >> of the pixel << line, index >>.
Coord(p) == << p[2] - 1, p[1] - 1 >>
\* p comes before q in scan order (line by line, along each line).
Before(p, q) == p[1] < q[1] \/ (p[1] = q[1] /\ p[2] < q[2])

\* The sum of w[p] over the pixels p of S.
RECURSIVE SumOver(_, _)
SumOver(S, w) ==
    IF S = {} THEN 0
    ELSE LET p == CHOOSE q \in S : TRUE IN w[p] + SumOver(S \ { p }, w)

\* ---- C1
\* C1: when Count has returned, its result is exactly the number of samples
\* whose input value is true and, with a mask, whose mask value is true too,
\* for every thread count and every assignment of the lines to thread slots.
C1_CountIsNumberOfSelectedTrue ==
    (op = "Count" /\ pc = "done")
        => result = Cardinality({ p \in SelectedPixels : Value(p) })

\* A masked count over two lines filtered by two different threads, both
\* slots non-zero, with a true sample that the mask leaves out.
C1_Witness ==
    /\ op = "Count" /\ pc = "done" /\ hasMask
    /\ threads >= 2 /\ counts_[0] >= 1 /\ counts_[1] >= 1
    /\ \E p \in Pixels : Value(p) /\ ~Selected(p)

\* ---- C8
\* The result of Count without a mask on the same image: every line through
\* the unmasked loop into the slot of one thread, then GetResult.
RECURSIVE CountUnmaskedRun(_, _)
CountUnmaskedRun(l, counts) ==
    IF l > NumLines THEN counts
    ELSE CountUnmaskedRun(l + 1, CountStore(counts, 0, CountLine(img[l], << >>, FALSE)))

CountUnmasked == CountResult(CountUnmaskedRun(1, Resize(EmptyVector, 1, 0)))

\* C8: masked Count returns 0 when the mask is false everywhere, and the
\* result of Count without a mask when the mask is true everywhere.
C8_UniformMask ==
    (op = "Count" /\ pc = "done" /\ hasMask)
        => /\ (\A p \in Pixels : ~Selected(p)) => result = 0
           /\ (\A p \in Pixels : Selected(p)) => result = CountUnmasked

\* An all-true mask over an image holding true and false samples.
C8_Witness ==
    /\ op = "Count" /\ pc = "done" /\ hasMask
    /\ \A p \in Pixels : Selected(p)
    /\ \E p \in Pixels : Value(p)
    /\ \E p \in Pixels : ~Value(p)
    /\ result >= 1

\* ---- C6
\* The state of thread slot s of the filter.
Slot(s) ==
    << IF s \in DOMAIN counts_ THEN counts_[s] ELSE "-",
       IF s \in DOMAIN value_ THEN value_[s] ELSE "-",
       IF s \in DOMAIN coord_ THEN coord_[s] ELSE "-",
       IF s \in DOMAIN accArray_ THEN accArray_[s] ELSE "-" >>

Better(a, b) == IF op = "MaxPixel" THEN a >= b ELSE a <= b
Extreme == CHOOSE v \in { Value(p) : p \in SelectedPixels } :
               \A q \in SelectedPixels : Better(v, Value(q))
Tied == { p \in SelectedPixels : Value(p) = Extreme }
FirstTied == CHOOSE p \in Tied : \A q \in Tied : q = p \/ Before(p, q)
LastTied == CHOOSE p \in Tied : \A q \in Tied : q = p \/ Before(q, p)
Expected == Coord(IF first_ THEN FirstTied ELSE LastTied)
\* The value the search starts from: lowest() for the maximum, max() for
\* the minimum.
SearchStart == IF op = "MaxPixel" THEN TypeLowest ELSE TypeHighest
MaxMinPixelDone == op \in { "MaxPixel", "MinPixel" } /\ pc = "done"

\* ---- C2
\* C2: on an image of a single line, without a mask, in which at least two
\* samples hold the extreme value, MaximumPixel / MinimumPixel return the
\* position of the first of them with "first" and of the last otherwise.
C2_TieOnOneLine ==
    (MaxMinPixelDone /\ ~hasMask /\ NumLines = 1 /\ Cardinality(Tied) >= 2)
        => result = Expected

\* ---- C3
\* C3: on an image of several lines whose extreme selected value is not the
\* value the search starts from, MaximumPixel / MinimumPixel return the
\* position of the first occurrence of the extreme value in scan order with
\* "first", and of the last occurrence otherwise, whichever thread slots
\* filtered the lines.
C3_TieAcrossLines ==
    (MaxMinPixelDone /\ NumLines >= 2 /\ SelectedPixels # {}
                     /\ Extreme # SearchStart)
        => result = Expected

\* ---- C4
\* Slot s has seen no sample: every line it filtered is masked out wholly.
SawNoSample(s) ==
    \A l \in Lines : assigned[l] = s => \A ii \in 1..LineLength : ~Selected(<< l, ii >>)

\* The vector v without its slot s.
WithoutSlot(v, s) ==
    [ ii \in 0..(Cardinality(DOMAIN v) - 2) |-> IF ii < s THEN v[ii] ELSE v[ii + 1] ]

GetResultWithout(s) ==
    IF op = "MaxPixel"
    THEN MaxPixelResult(WithoutSlot(value_, s), WithoutSlot(coord_, s), first_)
    ELSE MinPixelResult(WithoutSlot(value_, s), WithoutSlot(coord_, s), first_)

\* C4: with two or more slots, GetResult of MaximumPixel / MinimumPixel
\* returns what it would return without any one slot that has seen no
\* sample.
C4_EmptySlotIsNeutral ==
    (MaxMinPixelDone /\ threads >= 2)
        => \A s \in 0..(threads - 1) : SawNoSample(s) => result = GetResultWithout(s)

\* ---- C5
\* The slots of MaximumPixel / MinimumPixel after a scan that hands line l
\* to slot assign[l].
RECURSIVE MaxMinPixelRun(_, _, _)
MaxMinPixelRun(assign, l, st) ==
    IF l > NumLines THEN st
    ELSE MaxMinPixelRun(assign, l + 1,
            IF op = "MaxPixel"
            THEN MaxPixelStore(st, assign[l], first_,
                     MaxPixelLine(img[l], MaskLine(l), hasMask, first_, Position(l)))
            ELSE MinPixelStore(st, assign[l], first_,
                     MinPixelLine(img[l], MaskLine(l), hasMask, first_, Position(l))))

ResultOfRun(assign) ==
    LET st == MaxMinPixelRun(assign, 1,
                  << Resize(EmptyVector, threads, SearchStart),
                     Resize(EmptyVector, threads, << >>) >>)
    IN IF op = "MaxPixel" THEN MaxPixelResult(st[1], st[2], first_)
                          ELSE MinPixelResult(st[1], st[2], first_)

\* C5: for a fixed image, mask, position flag and thread count, the result
\* of MaximumPixel / MinimumPixel is that of the run in which slot 0 filters
\* every line, whichever slots filtered the lines in this run (stated for
\* the images whose extreme selected value is not the value the search
\* starts from).
C5_SameResultInEveryRun ==
    (MaxMinPixelDone /\ SelectedPixels # {} /\ Extreme # SearchStart)
        => result = ResultOfRun([ l \in Lines |-> 0 ])

\* ---- C7
\* The sums over the selected samples: value * x, value * y, value.
TrueSums ==
    << SumOver(SelectedPixels, [ p \in Pixels |-> Value(p) * Coord(p)[1] ]),
       SumOver(SelectedPixels, [ p \in Pixels |-> Value(p) * Coord(p)[2] ]),
       SumOver(SelectedPixels, [ p \in Pixels |-> Value(p) ]) >>

\* The minimum and maximum of all selected samples pushed into one state.
RECURSIVE PushAll(_, _)
PushAll(S, acc) ==
    IF S = {} THEN acc
    ELSE LET p == CHOOSE q \in S : TRUE
         IN PushAll(S \ { p }, MinMaxPush(acc, Value(p)))

\* C7: the per-line partial states merged with += into the thread slots
\* and then into one state hold the sufficient statistics of all selected
\* samples accumulated into one state: the count for Count, the minimum and
\* maximum for MaximumAndMinimum, the sums of value * position and of the
\* values for CenterOfMass.
C7_MergeEqualsSinglePass ==
    pc = "done"
        => /\ op = "Count"
                => CountResult(counts_) = Cardinality({ p \in SelectedPixels : Value(p) })
           /\ op = "MaximumAndMinimum"
                => MaxMinResult(accArray_) = PushAll(SelectedPixels, MinMaxNew)
           /\ op = "CenterOfMass"
                => CenterOfMassMerge(accArray_, 1, accArray_[0]) = TrueSums

\* ---- C9
\* C9: CenterOfMass on an image whose only non-zero sample lies at p, and
\* is selected, returns p.
C9_SingleMassPoint ==
    (op = "CenterOfMass" /\ pc = "done")
        => \A p \in SelectedPixels :
              (Value(p) # 0 /\ \A q \in Pixels \ { p } : Value(q) = 0)
                  => result = << Whole(Coord(p)[1]), Whole(Coord(p)[2]) >>

\* ---- C10
\* C10: when the values of the selected samples sum to zero, CenterOfMass
\* returns the zero vector with one entry per image dimension.
C10_ZeroMass ==
    (op = "CenterOfMass" /\ pc = "done" /\ TrueSums[nD_ + 1] = 0)
        => result = [ jj \in 1..nD_ |-> Whole(0) ]

\* ---- C11
\* The positions a cumulative sum along the processed dimensions adds up
\* at index ii of line l: those at or before it along every processed
\* dimension, and at the same index along every other dimension.
Upto(l, ii) ==
    (IF Flagged(2) THEN 1..l ELSE { l }) \X (IF Flagged(1) THEN 1..ii ELSE { ii })

SamplesOf(image) == [ p \in Pixels |-> image[p[1]][p[2]] ]

RunningSums(image) ==
    [ l \in 1..NumLines |->
        [ ii \in 1..LineLength |-> SumOver(Upto(l, ii), SamplesOf(image)) ] ]

CumulativeSumDone == op = "CumulativeSum" /\ pc = "done"

\* C11: CumulativeSum without a mask writes at every position the sum of
\* the input samples from the start of the line up to that position, along
\* each processed dimension; a dimension that is not flagged is not
\* accumulated; the line [1,2,3,4] gives [1,3,6,10].
C11_RunningSumOfLine ==
    /\ CumSumLine(<< 1, 2, 3, 4 >>) = << 1, 3, 6, 10 >>
    /\ (CumulativeSumDone /\ ~hasMask) => output = RunningSums(img)

C11_Witness ==
    /\ CumulativeSumDone /\ ~hasMask
    /\ Flagged(1) /\ ~Flagged(2)
    /\ LineLength >= 2 /\ NumLines >= 2
    /\ \E l \in Lines : output[l] # img[l]
    /\ \A l \in Lines : output[l][1] = img[l][1]

\* ---- C12
\* The input with every sample whose mask value is false replaced by 0.
MaskedOutZero ==
    [ l \in 1..NumLines |->
        [ ii \in 1..LineLength |-> IF MaskAt(l, ii) THEN img[l][ii] ELSE 0 ] ]

LineWithMask(line, msk) ==
    [ ii \in 1..Len(line) |-> IF msk[ii] THEN line[ii] ELSE 0 ]

\* C12: CumulativeSum with a mask gives the running sums of the input in
\* which every masked-out sample is replaced by 0; a masked-out position
\* still receives the running sum; [1,2,3,4] with the mask
\* [true,false,true,true] gives [1,1,4,8].
C12_MaskedRunningSum ==
    /\ CumSumLine(LineWithMask(<< 1, 2, 3, 4 >>, << TRUE, FALSE, TRUE, TRUE >>))
           = << 1, 1, 4, 8 >>
    /\ (CumulativeSumDone /\ hasMask) => output = RunningSums(MaskedOutZero)

C12_Witness ==
    /\ CumulativeSumDone /\ hasMask
    /\ Flagged(1) /\ ~Flagged(2)
    /\ LineLength >= 3
    /\ MaskAt(1, 1) /\ ~MaskAt(1, 2) /\ MaskAt(1, 3)
    /\ img[1][1] = 1 /\ img[1][2] = 1 /\ img[1][3] = 1
    /\ output[1][2] = 1 /\ output[1][3] = 2

\* ---- C13
\* C13: when CumulativeSum raises an error, the output image is as it was
\* before the call (not forged).
C13_ErrorLeavesOutputAlone ==
    (op = "CumulativeSum" /\ pc = "error") => output = NoImage

\* ---- C14
\* An input of the call is not forged.
Unforged == ~forged \/ (op = "Covariance" /\ ~in2.forged)

\* No line has been handed to a line filter and no output was written.
NothingFiltered ==
    /\ pc \in { "call", "error" }
    /\ threads = 0
    /\ nextLine = 1
    /\ assigned = << >>
    /\ accArray_ = EmptyVector
    /\ output = NoImage

\* C14: every statistics function given an input that is not forged
\* raises IMAGE_NOT_FORGED, whatever else is wrong with the input, and no
\* line is filtered.
C14_NotForgedFirst ==
    Unforged => /\ NothingFiltered
                /\ pc = "error" => error = "IMAGE_NOT_FORGED"

C14_Witness ==
    /\ op = "Count" /\ ~forged /\ tensor = 2
    /\ pc = "error" /\ error = "IMAGE_NOT_FORGED"

\* ---- C15
Minimum(S) == CHOOSE v \in S : \A w \in S : v <= w
Maximum(S) == CHOOSE v \in S : \A w \in S : v >= w
SelectedValues == { Value(p) : p \in SelectedPixels }

\* The result is the statistic of all selected samples of the sample
\* array (every tensor element of every pixel).
OverAllSamples ==
    CASE op = "MaximumAndMinimum" ->
             SelectedPixels # {} =>
                 result = [ min_ |-> Minimum(SelectedValues),
                            max_ |-> Maximum(SelectedValues) ]
      [] op = "SampleStatistics" ->
             /\ result.n_ = Cardinality(SelectedPixels)
             /\ SelectedPixels # {} =>
                    result.m1_ = Quotient(SumOver(SelectedPixels, SamplesOf(img)),
                                          Cardinality(SelectedPixels))
      [] op = "Covariance" -> result.n_ = Cardinality(SelectedPixels)
      [] OTHER -> TRUE

\* C15: a forged image with more than one sample per pixel makes Count,
\* MaximumPixel, MinimumPixel, CenterOfMass and Moments raise
\* IMAGE_NOT_SCALAR without filtering a line; MaximumAndMinimum,
\* SampleStatistics and Covariance do not raise it and compute over all
\* tensor samples.
C15_ScalarOnlyWhereRequired ==
    /\ (forged /\ tensor > 1 /\ op \in ScalarFunctions)
           => /\ NothingFiltered
              /\ pc = "error" => error = "IMAGE_NOT_SCALAR"
    /\ (op \in TensorFunctions) => error # "IMAGE_NOT_SCALAR"
    /\ (op \in TensorFunctions /\ tensor > 1 /\ pc = "done") => OverAllSamples

C15_Witness ==
    /\ op = "SampleStatistics" /\ tensor = 2 /\ pc = "done"
    /\ LineLength >= 2
    /\ result.n_ = 2 * LineLength

\* ---- C16
\* The inputs of Covariance are forged but do not go together.
Mismatch ==
    /\ op = "Covariance" /\ forged /\ in2.forged
    /\ \/ in2.sizes # sizes
       \/ in2.tensor # tensor
       \/ hasMask /\ ~MaskFits

\* C16: Covariance raises an error without filtering a line or touching a
\* slot when the inputs differ in sizes or tensor elements or a forged
\* mask does not fit; without a forged mask every pair of samples is
\* pushed.
C16_CovarianceInputsMatch ==
    /\ Mismatch => /\ NothingFiltered
                   /\ pc = "error" => error \notin { NoError, "IMAGE_NOT_FORGED" }
    /\ (op = "Covariance" /\ ~hasMask /\ pc = "done")
           => result.n_ = Cardinality(Pixels)

C16_Witness ==
    /\ op = "Covariance" /\ forged /\ in2.forged
    /\ in2.sizes = sizes /\ in2.tensor = tensor
    /\ hasMask /\ ~MaskFits
    /\ pc = "error" /\ error = "MASK_SIZES_DONT_MATCH"

\* ---- C17
\* The domains of the per-thread storage of the running line filter.
SlotStorage ==
    CASE op = "Count" -> { DOMAIN counts_ }
      [] op \in { "MaxPixel", "MinPixel" } -> { DOMAIN value_, DOMAIN coord_ }
      [] OTHER -> { DOMAIN accArray_ }

\* C17: in every scan SetNumberOfThreads( T ) is called once, before the
\* first Filter call; every Filter call is for the next line, once per
\* line, with a thread in 0..T-1 that has a slot in the storage; GetResult
\* is called after the last line.
C17_CallOrder ==
    [][ op # "CumulativeSum" =>
          /\ threads' # threads =>
                 /\ pc = "new" /\ threads = 0 /\ nextLine = 1
                 /\ pc' = "scan" /\ threads' >= 1
                 /\ SlotStorage' = { 0..(threads' - 1) }
          /\ nextLine' # nextLine =>
                 /\ pc = "scan" /\ pc' = "scan" /\ threads >= 1
                 /\ nextLine \in Lines /\ nextLine' = nextLine + 1
                 /\ Len(assigned') = nextLine
                 /\ SubSeq(assigned', 1, nextLine - 1) = assigned
                 /\ assigned'[nextLine] \in 0..(threads - 1)
                 /\ SlotStorage = { 0..(threads - 1) }
          /\ (pc' = "done" /\ pc # "done") =>
                 /\ pc = "scan"
                 /\ nextLine = NumLines + 1
                 /\ Len(assigned) = NumLines
          /\ (pc = "done") => pc' = "done" ]_vars

C17_Witness ==
    /\ op = "MaximumAndMinimum" /\ pc = "done"
    /\ threads = 2 /\ NumLines = 2
    /\ assigned = << 1, 0 >>


\* The selected samples in scan order.
RECURSIVE ScanOrder(_, _)
ScanOrder(l, ii) ==
    IF l > NumLines THEN << >>
    ELSE IF ii > LineLength THEN ScanOrder(l + 1, 1)
    ELSE IF Selected(<< l, ii >>)
         THEN << img[l][ii] >> \o ScanOrder(l, ii + 1)
         ELSE ScanOrder(l, ii + 1)

\* One accumulator that is given the samples one after the other.
RECURSIVE SinglePass(_, _, _)
SinglePass(xs, ii, acc) ==
    IF ii > Len(xs) THEN acc
    ELSE SinglePass(xs, ii + 1, StatisticsPush(acc, xs[ii]))

\* x to the power k, and the sum of the k-th powers of the differences of
\* the samples xs from m.
RECURSIVE RPower(_, _)
RPower(x, k) == IF k = 0 THEN Whole(1) ELSE RMul(x, RPower(x, k - 1))
RECURSIVE CentralSum(_, _, _, _)
CentralSum(xs, ii, m, k) ==
    IF ii > Len(xs) THEN Whole(0)
    ELSE RAdd(RPower(RSub(Whole(xs[ii]), m), k), CentralSum(xs, ii + 1, m, k))
RECURSIVE SumOfSeq(_, _)
SumOfSeq(xs, ii) == IF ii > Len(xs) THEN 0 ELSE xs[ii] + SumOfSeq(xs, ii + 1)

\* The moments of the samples xs by their definition.
MomentsOf(xs) ==
    IF Len(xs) = 0 THEN StatisticsNew
    ELSE LET m == Quotient(SumOfSeq(xs, 1), Len(xs))
         IN [ n_ |-> Len(xs), m1_ |-> m,
              m2_ |-> CentralSum(xs, 1, m, 2),
              m3_ |-> CentralSum(xs, 1, m, 3),
              m4_ |-> CentralSum(xs, 1, m, 4) ]

\* Mean, variance, skewness and kurtosis are functions of n_, m1_ .. m4_;
\* the skewness is compared by its sign and its square (it has a square
\* root in it).
SkewnessSign(acc) == IF acc.m3_.num > 0 THEN 1 ELSE IF acc.m3_.num < 0 THEN 0 - 1 ELSE 0
SkewnessSquared(acc) ==
    IF acc.n_ > 2 /\ acc.m2_.num # 0
    THEN RDiv(RMul(Whole(acc.n_), RMul(acc.m3_, acc.m3_)),
              RMul(acc.m2_, RMul(acc.m2_, acc.m2_)))
    ELSE Whole(0)
ExcessKurtosis(acc) ==
    IF acc.n_ > 3 /\ acc.m2_.num # 0
    THEN RSub(RDiv(RMul(Whole(acc.n_), acc.m4_), RMul(acc.m2_, acc.m2_)), Whole(3))
    ELSE Whole(0)
SameStatistics(a, b) ==
    /\ a.n_ = b.n_
    /\ StatisticsMean(a) = StatisticsMean(b)
    /\ StatisticsVariance(a) = StatisticsVariance(b)
    /\ SkewnessSign(a) = SkewnessSign(b)
    /\ SkewnessSquared(a) = SkewnessSquared(b)
    /\ ExcessKurtosis(a) = ExcessKurtosis(b)

\* C18: SampleStatistics: whatever lines each thread was given (next to
\* each other or not, or none), the merged accumulators have the count,
\* mean, variance, skewness and kurtosis of a single pass over all selected
\* samples, which are those of the definition of the moments. The
\* arithmetic of the model is exact, so that the values are equal.
C18_MergeEqualsSinglePass ==
    (op = "SampleStatistics" /\ pc = "done") =>
        /\ SameStatistics(result, SinglePass(ScanOrder(1, 1), 1, StatisticsNew))
        /\ SameStatistics(result, MomentsOf(ScanOrder(1, 1)))

\* Three lines on two threads, the first and the last line on one thread
\* and the line between them on the other; the samples have a skewness.
C18_Witness ==
    /\ op = "SampleStatistics"
    /\ pc = "done"
    /\ threads = 2
    /\ assigned = << 0, 1, 0 >>
    /\ result.n_ = 3
    /\ result.m3_.num # 0


\* The selected samples of an image in scan order.
RECURSIVE ScanOrderOf(_, _, _)
ScanOrderOf(image, l, ii) ==
    IF l > NumLines THEN << >>
    ELSE IF ii > LineLength THEN ScanOrderOf(image, l + 1, 1)
    ELSE IF Selected(<< l, ii >>)
         THEN << image[l][ii] >> \o ScanOrderOf(image, l, ii + 1)
         ELSE ScanOrderOf(image, l, ii + 1)

\* The sum of the products of the differences of xs and ys from their
\* means mx and my.
RECURSIVE ProductSum(_, _, _, _, _)
ProductSum(xs, ys, ii, mx, my) ==
    IF ii > Len(xs) THEN Whole(0)
    ELSE RAdd(RMul(RSub(Whole(xs[ii]), mx), RSub(Whole(ys[ii]), my)),
              ProductSum(xs, ys, ii + 1, mx, my))

\* The covariance of the samples xs and ys by its definition.
CovarianceDefinition(xs, ys) ==
    IF Len(xs) < 2 THEN Whole(0)
    ELSE RDiv(ProductSum(xs, ys, 1, Quotient(SumOfSeq(xs, 1), Len(xs)),
                         Quotient(SumOfSeq(ys, 1), Len(ys))),
              Whole(Len(xs) - 1))

\* The result of a scan of first and second on T threads in which line l
\* goes to thread a[l].
RECURSIVE CovarianceScan(_, _, _, _, _)
CovarianceScan(first, second, a, l, acc) ==
    IF l > NumLines THEN acc
    ELSE CovarianceScan(first, second, a, l + 1,
             CovarianceStore(acc, a[l],
                 CovarianceLine(first[l], second[l], MaskLine(l), hasMask)))
CovarianceRun(first, second, T, a) ==
    CovarianceResult(CovarianceScan(first, second, a, 1,
                                    Resize(EmptyVector, T, CovarianceNew)))

\* C19: Covariance: the covariance of an image with itself is the variance
\* of the image, and the call with the two inputs exchanged (scanned the
\* same way) gives the same covariance, which is the covariance of the
\* selected samples by its definition, however the lines were handed out;
\* with and without a mask.
C19_SelfAndSymmetric ==
    (op = "Covariance" /\ pc = "done" /\ error = NoError) =>
        /\ in2.img = img =>
               CovarianceOf(result) = StatisticsVariance(MomentsOf(ScanOrder(1, 1)))
        /\ CovarianceOf(CovarianceRun(in2.img, img, threads, assigned))
               = CovarianceOf(result)
        /\ CovarianceOf(result) =
               CovarianceDefinition(ScanOrderOf(img, 1, 1), ScanOrderOf(in2.img, 1, 1))

\* Two images that differ, under a mask that leaves a sample out, with a
\* covariance that is not zero, scanned on two threads.
C19_Witness ==
    /\ op = "Covariance"
    /\ pc = "done"
    /\ error = NoError
    /\ hasMask
    /\ Cardinality(SelectedPixels) < Cardinality(Pixels)
    /\ in2.img # img
    /\ threads = 2
    /\ assigned = << 0, 1 >>
    /\ CovarianceOf(result).num # 0

\* An image with itself, with a variance that is not zero.
C19_SelfWitness ==
    /\ op = "Covariance"
    /\ pc = "done"
    /\ in2.img = img
    /\ CovarianceOf(result).num > 0


\* The tensor size tsize consists of positive whole numbers that agree
\* with n tensor elements stored in the shape sh.
SizeAgrees(sh, tsize, n) ==
    /\ tsize[1] > 0
    /\ tsize[2] > 0
    /\ CASE sh \in { "column vector", "row vector", "column-major matrix",
                     "row-major matrix" } -> tsize[1] * tsize[2] = n
         [] sh = "diagonal matrix" -> tsize[1] = n /\ tsize[2] = n
         [] sh \in { "symmetric matrix", "upper triangular matrix",
                     "lower triangular matrix" } ->
                tsize[1] = tsize[2] /\ tsize[1] * (tsize[1] + 1) = 2 * n
         [] OTHER -> FALSE

\* Some tensor size of positive whole numbers agrees with the assigned
\* value ts and n tensor elements.
AssignmentAgrees(ts, n) ==
    IF ts.class = "char"
    THEN \E rows \in 1..n : \E cols \in 1..n : SizeAgrees(ts.text, << rows, cols >>, n)
    ELSE IF ts.class # "double" THEN FALSE
    ELSE IF Len(ts.numbers) = 1
         THEN \E cols \in 1..n : SizeAgrees("column-major matrix", << ts.numbers[1], cols >>, n)
    ELSE IF Len(ts.numbers) = 2
         THEN SizeAgrees("column-major matrix", ts.numbers, n)
    ELSE FALSE

\* C20: dip_image: an assignment to TensorShape that succeeds leaves a
\* TensorSize of positive whole numbers that agrees with the shape and the
\* number of tensor elements of the data; an assignment that does not agree
\* with the number of tensor elements raises an error; an assignment that
\* raises an error leaves TensorShape and TensorSize as they were; an
\* assignment to Array makes the image a column vector of size [n,1].
C20_TensorSizeAgrees ==
    [][ op = "dip_image" =>
          /\ (pc' = "set.TensorShape" /\ error' = NoError) =>
                 SizeAgrees(dip_image'.TensorShapeInternal,
                            dip_image'.TensorSizeInternal, dip_image'.Data)
          /\ (pc' = "set.TensorShape" /\ ~AssignmentAgrees(tshape', dip_image.Data)) =>
                 error' # NoError
          /\ (pc' = "set.TensorShape" /\ error' # NoError) =>
                 /\ dip_image'.TensorShapeInternal = dip_image.TensorShapeInternal
                 /\ dip_image'.TensorSizeInternal = dip_image.TensorSizeInternal
          /\ (pc' = "set.Array" /\ error' = NoError) =>
                 /\ dip_image'.TensorShapeInternal = "column vector"
                 /\ dip_image'.TensorSizeInternal = << dip_image'.Data, 1 >> ]_vars

\* The assignment img.TensorShape = [-1,-2] to an image of two tensor
\* elements has succeeded.
C20_NegativeSize ==
    /\ op = "dip_image"
    /\ pc = "set.TensorShape"
    /\ error = NoError
    /\ dip_image.Data = 2
    /\ dip_image.TensorSizeInternal = << 0 - 1, 0 - 2 >>

\* What holds of the code: the product of the tensor size is the number of
\* tensor elements for vectors and full matrices whatever was assigned.
C20_ProductAgrees ==
    (op = "dip_image" /\ pc = "set.TensorShape" /\ error = NoError
         /\ dip_image.TensorShapeInternal \in { "column vector", "row vector",
                "column-major matrix", "row-major matrix" }) =>
        prod(dip_image.TensorSizeInternal) = dip_image.Data


\* The samples of the line of lineFilter in the order of their positions,
\* and their offsets.
LineSamples ==
    [ k \in 1..lineFilter.bufferLength |->
          lineFilter.buffer[(k - 1) * lineFilter.inStride] ]
LineOffsetsInOrder ==
    [ k \in 1..lineFilter.bufferLength |-> (k - 1) * lineFilter.inStride ]

\* The loop that pushes one sample at a time.
RECURSIVE OneAtATime(_, _, _)
OneAtATime(xs, ii, acc) ==
    IF ii >= Len(xs) THEN acc
    ELSE OneAtATime(xs, ii + 1, MinMaxPush(acc, xs[ii + 1]))

\* C21: MaximumAndMinimum without a mask, on a line of at least one sample
\* with any stride: no read falls outside the line, and when Filter
\* returns it has pushed the sample of every position exactly once, in
\* pairs and then the last one of an odd line, and has added to the slot of
\* its thread the minimum and maximum that the loop over one sample at a
\* time gives.
C21_PairLoopIsOneAtATime ==
    (op = "dip__MaximumAndMinimum::Filter" /\ lineFilter.bufferLength >= 1) =>
        /\ pc # "undefined"
        /\ pc = "done" =>
               /\ lineFilter.pushed = LineOffsetsInOrder
               /\ lineFilter.vars = OneAtATime(LineSamples, 0, MinMaxNew)
               /\ accArray_[0] = OneAtATime(LineSamples, 0, MinMaxNew)

\* A line of three samples two apart, the last of which is the maximum.
C21_Witness ==
    /\ op = "dip__MaximumAndMinimum::Filter"
    /\ pc = "done"
    /\ lineFilter.bufferLength = 3
    /\ lineFilter.inStride = 2
    /\ lineFilter.pushed = << 0, 2, 4 >>
    /\ lineFilter.buffer[4] > lineFilter.buffer[0]
    /\ lineFilter.buffer[4] > lineFilter.buffer[2]
    /\ accArray_[0].max_ = lineFilter.buffer[4]

MaskedFunctions ==
    { "Count", "MaxPixel", "MinPixel", "MaximumAndMinimum", "CenterOfMass",
      "Moments" }

\* The per-thread storage as SetNumberOfThreads( threads ) makes it.
StorageNew ==
    CASE op = "Count" -> Resize(EmptyVector, threads, 0)
      [] op = "MaxPixel" -> << Resize(EmptyVector, threads, TypeLowest),
                               Resize(EmptyVector, threads, << >>) >>
      [] op = "MinPixel" -> << Resize(EmptyVector, threads, TypeHighest),
                               Resize(EmptyVector, threads, << >>) >>
      [] op = "MaximumAndMinimum" -> Resize(EmptyVector, threads, MinMaxNew)
      [] op = "CenterOfMass" ->
             [ ii \in 0..(threads - 1) |-> [ jj \in 1..(nD_ + 1) |-> 0 ] ]
      [] op = "Moments" -> Resize(EmptyVector, threads, MomentNew)

\* The storages that Filter can leave when it is given line l of image by
\* the thread that was given line l in this scan.
LineStored(image, l, st) ==
    CASE op = "Count" ->
             { CountStore(st, assigned[l], CountLine(image[l], MaskLine(l), hasMask)) }
      [] op = "MaxPixel" ->
             { MaxPixelStore(st, assigned[l], first_,
                   MaxPixelLine(image[l], MaskLine(l), hasMask, first_, Position(l))) }
      [] op = "MinPixel" ->
             { MinPixelStore(st, assigned[l], first_,
                   MinPixelLine(image[l], MaskLine(l), hasMask, first_, Position(l))) }
      [] op = "MaximumAndMinimum" ->
             { MaxMinStore(st, assigned[l], MaxMinLine(image[l], MaskLine(l), hasMask)) }
      [] op = "CenterOfMass" ->
             { CenterOfMassStore(st, assigned[l],
                   CenterOfMassLine(image[l], MaskLine(l), hasMask, Position(l), initial)) :
                   initial \in IndeterminateVars }
      [] op = "Moments" ->
             { MomentsStore(st, assigned[l],
                   MomentsLine(image[l], MaskLine(l), hasMask, Position(l))) }

RECURSIVE ScanStorages(_, _, _)
ScanStorages(image, l, S) ==
    IF l > NumLines THEN S
    ELSE ScanStorages(image, l + 1, UNION { LineStored(image, l, st) : st \in S })

StorageResult(st) ==
    CASE op = "Count" -> CountResult(st)
      [] op = "MaxPixel" -> MaxPixelResult(st[1], st[2], first_)
      [] op = "MinPixel" -> MinPixelResult(st[1], st[2], first_)
      [] op = "MaximumAndMinimum" -> MaxMinResult(st)
      [] op = "CenterOfMass" -> CenterOfMassResult(st)
      [] op = "Moments" -> MomentsResult(st)

\* The results that this scan (its threads, its lines handed out as they
\* were) can return for image.
ScanResults(image) ==
    { StorageResult(st) : st \in ScanStorages(image, 1, { StorageNew }) }

\* The images that have the samples of img wherever the mask is true.
AgreeingImages ==
    { image \in ImagesOf(sizes, IF op = "Count" THEN BOOLEAN ELSE Samples) :
          \A p \in SelectedPixels : image[p[1]][p[2]] = Value(p) }

MaskedScanDone ==
    /\ op \in MaskedFunctions
    /\ pc = "done"
    /\ error = NoError
    /\ hasMask

\* C22: a masked scan of Count, MaximumPixel, MinimumPixel,
\* MaximumAndMinimum, CenterOfMass or Moments returns what it returns for
\* every image that has the same samples where the mask is true, and a
\* position returned by MaximumPixel or MinimumPixel is one where the mask
\* is true when the mask is true somewhere.
C22_OnlySelectedSamplesCount ==
    MaskedScanDone =>
        /\ \A image \in AgreeingImages : ScanResults(image) = { result }
        /\ (op \in { "MaxPixel", "MinPixel" } /\ SelectedPixels # {}) =>
               \E p \in SelectedPixels : result = Coord(p)

\* What holds of the code: Count, MaximumAndMinimum and Moments return the
\* same for every image with the same samples where the mask is true, and
\* so do MaximumPixel and MinimumPixel in a scan handed out the same way.
C22_DeterministicScans ==
    (MaskedScanDone /\ op # "CenterOfMass") =>
        \A image \in AgreeingImages : ScanResults(image) = { result }


\* C26: MaximumPixel and MinimumPixel, for every image, mask, number of
\* threads and position mode, return a coordinate array with one entry per
\* image dimension that names a pixel of the image, and when the mask
\* selects a sample, a selected pixel whose value is the maximum (minimum)
\* of the selected samples; also when every selected sample has the value
\* the search starts from.
C26_ExtremePixelReturned ==
    (op \in { "MaxPixel", "MinPixel" } /\ pc = "done") =>
        /\ Len(result) = Dimensionality
        /\ \E p \in Pixels : result = Coord(p)
        /\ SelectedPixels # {} =>
               \E p \in SelectedPixels :
                   /\ result = Coord(p)
                   /\ Value(p) = IF op = "MaxPixel" THEN Maximum(SelectedValues)
                                                    ELSE Minimum(SelectedValues)

\* What holds of the code: the claim for the images in which some selected
\* sample differs from the value the search starts from.
C26_AwayFromInitialValue ==
    (op \in { "MaxPixel", "MinPixel" } /\ pc = "done"
         /\ \E p \in SelectedPixels :
                Value(p) # IF op = "MaxPixel" THEN TypeLowest ELSE TypeHighest) =>
        \E p \in SelectedPixels :
            /\ result = Coord(p)
            /\ Value(p) = IF op = "MaxPixel" THEN Maximum(SelectedValues)
                                             ELSE Minimum(SelectedValues)


\* A line of n samples that are lo, but for the sample of index ii, hi.
Impulse(n, ii, hi, lo) == [ k \in 1..n |-> IF k = ii + 1 THEN hi ELSE lo ]

\* params.position with the coordinate along params.dimension increased by
\* ii (params.dimension is the first entry of the coordinates of the model).
Advanced(position, ii) == << position[1] + ii, position[2] >>

\* The coordinate that each filter attributes to the sample of index ii of
\* a line that starts at position, read from what the filter returns for a
\* line that is zero (or the value the search starts from) but for sample ii.
MaxPixelCoordinate(msk, masked, first, position, ii) ==
    MaxPixelLine(Impulse(LineLength, ii, TypeHighest, TypeLowest), msk, masked,
                 first, position).coord
MinPixelCoordinate(msk, masked, first, position, ii) ==
    MinPixelLine(Impulse(LineLength, ii, TypeLowest, TypeHighest), msk, masked,
                 first, position).coord
CenterOfMassCoordinate(msk, masked, position, ii) ==
    LET sums == CenterOfMassLine(Impulse(LineLength, ii, 1, 0), msk, masked,
                                 position, [ jj \in 1..(nD_ + 1) |-> 0 ])
    IN [ jj \in 1..nD_ |-> sums[jj] ]
MomentsCoordinate(msk, masked, position, ii) ==
    MomentsLine(Impulse(LineLength, ii, 1, 0), msk, masked, position).m1_

\* The start positions of line l: the one the scan passes, and the one of a
\* line that starts one sample further along the processing dimension.
StartPositions(l) == { Position(l), << Position(l)[1] + 1, Position(l)[2] >> }

\* The coordinate that the filter of the function attributes to sample ii.
Attributed(function, msk, masked, first, position, ii) ==
    CASE function = "MaxPixel" -> MaxPixelCoordinate(msk, masked, first, position, ii)
      [] function = "MinPixel" -> MinPixelCoordinate(msk, masked, first, position, ii)
      [] function = "CenterOfMass" -> CenterOfMassCoordinate(msk, masked, position, ii)
      [] function = "Moments" -> MomentsCoordinate(msk, masked, position, ii)

\* The first and second order sums of Moments by their definition.
MomentsDefinition ==
    [ m0_ |-> SumOver(SelectedPixels, SamplesOf(img)),
      m1_ |-> [ jj \in 1..nD_ |->
                  SumOver(SelectedPixels, [ p \in Pixels |-> Coord(p)[jj] * Value(p) ]) ],
      m2_ |-> [ kk \in 1..Len(MomentPairs) |->
                  SumOver(SelectedPixels,
                          [ p \in Pixels |-> Coord(p)[MomentPairs[kk][1]]
                                             * Coord(p)[MomentPairs[kk][2]] * Value(p) ]) ] ]

\* C23: MaximumPixel, MinimumPixel, CenterOfMass and Moments attribute to
\* the sample of index ii of a line the start position of the line with
\* the coordinate along the processing dimension increased by ii, with and
\* without a mask (samples that are masked out advance the position too),
\* from the start position of each line anew; so that the sums of a scan of
\* Moments are those of the coordinates of the selected pixels.
C23_CoordinateOfSample ==
    (op \in { "MaxPixel", "MinPixel", "CenterOfMass", "Moments" } /\ pc = "done"
         /\ error = NoError) =>
        /\ \A l \in Lines : \A ii \in 0..(LineLength - 1) :
               Selected(<< l, ii + 1 >>) =>
                   \A position \in StartPositions(l) : \A first \in BOOLEAN :
                       Attributed(op, MaskLine(l), hasMask, first, position, ii)
                           = Advanced(position, ii)
        /\ op = "Moments" => result = MomentsDefinition

\* A masked scan of Moments of two lines in which a sample that is masked
\* out comes before a selected sample of the second line that is not zero.
C23_Witness ==
    /\ op = "Moments"
    /\ pc = "done"
    /\ error = NoError
    /\ hasMask
    /\ sizes = << 2, 2 >>
    /\ ~Selected(<< 2, 1 >>)
    /\ Selected(<< 2, 2 >>)
    /\ img[2][2] # 0
    /\ result.m1_ # << 0, 0 >>


\* The values in a sequence of << offset, value >> pairs.
ValuesOf(accesses) == [ k \in 1..Len(accesses) |-> accesses[k][2] ]

\* The samples of the output line, as they are in its buffer.
OutputLine ==
    [ k \in 1..lineFilter.length |->
        lineFilter.buffers[OutBufferOf(lineFilter.aliased)][(k - 1) * lineFilter.outStride] ]

\* The running sums of a line, by their definition.
RunningSumsOfLine(samples) ==
    [ k \in 1..Len(samples) |-> SumOfSeq([ j \in 1..k |-> samples[j] ], 1) ]

\* C24: CumSumFilter::Filter with its output buffer being its input buffer
\* (same pointer, same stride) writes the values that it writes to an output
\* buffer of its own, the running sums of the samples the line had when the
\* call started: every sample is read before the output sample at its
\* position is written, so every read returns the sample's value at the start.
C24_AliasedOutputSameValues ==
    op = "CumSumFilter::Filter" =>
        /\ \A k \in 1..Len(lineFilter.read) :
               lineFilter.read[k] = << (k - 1) * lineFilter.inStride, lineFilter.samples[k] >>
        /\ \A k \in 1..Len(lineFilter.written) :
               /\ lineFilter.written[k][1] = (k - 1) * lineFilter.outStride
               /\ Len(lineFilter.read) >= k
        /\ pc = "done" =>
               /\ ValuesOf(lineFilter.written) = RunningSumsOfLine(lineFilter.samples)
               /\ OutputLine = RunningSumsOfLine(lineFilter.samples)

\* A finished call on a line of its own output buffer, whose second sample
\* is read after the first one was overwritten with another value.
C24_Witness ==
    /\ op = "CumSumFilter::Filter"
    /\ pc = "done"
    /\ lineFilter.aliased
    /\ lineFilter.length >= 3
    /\ lineFilter.samples[2] # 0
    /\ lineFilter.samples[3] # 0
    /\ OutputLine # lineFilter.samples
    /\ lineFilter.buffers["in"][lineFilter.inStride] # lineFilter.samples[2]


\* The image the separable pass of CumulativeSum starts from.
SummedImage == IF hasMask THEN SelectImage ELSE img

\* The pixels whose coordinate is at most that of p in every flagged
\* dimension and that of p in the others.
UptoFlagged(p) ==
    { q \in Pixels : /\ IF Flagged(1) THEN q[2] <= p[2] ELSE q[2] = p[2]
                     /\ IF Flagged(2) THEN q[1] <= p[1] ELSE q[1] = p[1] }

\* The image after CumSumFilter::Filter ran in place on every line of pass
\* p, from line k on.
RECURSIVE PassFrom(_, _, _)
PassFrom(image, p, k) ==
    IF k \notin PassLines(p) THEN image
    ELSE PassFrom(WriteLine(image, p, k, CumSumLine(LineOf(image, p, k))), p, k + 1)

\* The image after the passes of a sequence, one after the other.
RECURSIVE PassesInOrder(_, _)
PassesInOrder(image, order) ==
    IF order = << >> THEN image
    ELSE PassesInOrder(PassFrom(image, Head(order), 1), Tail(order))

\* The orders in which the flagged dimensions can be processed.
PassOrders ==
    { order \in { << >>, << "pass0" >>, << "pass1" >>,
                  << "pass0", "pass1" >>, << "pass1", "pass0" >> } :
        /\ (\E k \in 1..Len(order) : order[k] = "pass0") <=> Flagged(1)
        /\ (\E k \in 1..Len(order) : order[k] = "pass1") <=> Flagged(2) }

\* C28: CumulativeSum over the flagged dimensions gives at every pixel the
\* sum of the input samples (masked-out ones counting 0) whose coordinate
\* is at most the pixel's in every flagged dimension and the pixel's in the
\* others, and that is what the passes give in any order of the flagged
\* dimensions.
C28_SumOverFlaggedDimensions ==
    (CumulativeSumDone /\ error = NoError) =>
        /\ \A p \in Pixels :
               output[p[1]][p[2]] = SumOver(UptoFlagged(p), SamplesOf(SummedImage))
        /\ \A order \in PassOrders : PassesInOrder(SummedImage, order) = output

\* A finished CumulativeSum over both dimensions of an image of two lines
\* or more, whose result is that of neither dimension alone.
C28_Witness ==
    /\ CumulativeSumDone /\ error = NoError
    /\ Flagged(1) /\ Flagged(2)
    /\ NumLines >= 2 /\ LineLength >= 2
    /\ PassFrom(SummedImage, "pass0", 1) # output
    /\ PassFrom(SummedImage, "pass1", 1) # output
    /\ output[2][2] = SummedImage[1][1] + SummedImage[1][2]
                          + SummedImage[2][1] + SummedImage[2][2]
    /\ output[2][2] # 0


\* The entry of a window in a callback map of a ProxyManager: none, or the
\* callback.
EntryOf(manager, map, window) ==
    IF window \in DOMAIN manager[map] THEN << manager[map][window] >> ELSE << >>

\* C25: a step of the ProxyManager that calls a callback calls the one its
\* map of that kind holds for the window, and changes no map; a step that
\* changes the entry of a window in a callback map sets it to the callback
\* that is registered, calls nothing and changes no entry of another kind
\* or another window. So swapBuffers, setWindowTitle and refreshWindow call
\* the callback registered last for the window, and without one do nothing
\* and add no entry.
C25_CallbacksOnlyAsRegistered ==
    [][ op = "ProxyManager" =>
          /\ result' # NoCalls =>
                 /\ \A map \in CallbackMaps : instance_'[map] = instance_[map]
                 /\ Len(result') = 1
                 /\ EntryOf(instance_, result'[1].map, result'[1].window)
                        = << result'[1].callback >>
                 /\ result'[1].callback \in Callbacks
          /\ \A map \in CallbackMaps : \A window \in Windows :
                 EntryOf(instance_', map, window) # EntryOf(instance_, map, window) =>
                     /\ result' = NoCalls
                     /\ EntryOf(instance_', map, window) \in { << cb >> : cb \in Callbacks }
                     /\ \A other \in CallbackMaps : \A w \in Windows :
                            (other # map \/ w # window) =>
                                EntryOf(instance_', other, w) = EntryOf(instance_, other, w)
      ]_vars

\* swapBuffers called the callback registered last for a window, while the
\* other window has another callback of that kind and the window has none
\* of the other kinds.
C25_Witness ==
    /\ op = "ProxyManager"
    /\ result # NoCalls
    /\ result[1].map = "swap_buffers_callbacks_"
    /\ result[1].window = "window1"
    /\ result[1].callback = 2
    /\ EntryOf(instance_, "swap_buffers_callbacks_", "window2") = << 1 >>
    /\ EntryOf(instance_, "set_window_title_callbacks_", "window1") = << >>
    /\ EntryOf(instance_, "refresh_window_callbacks_", "window1") = << >>

\* C29: activeWindows() is the number of windows created and not released
\* since; no callback is called for a window that was released and not
\* created again, and the callback maps hold no entry for such a window.
C29_ReleaseForgetsWindow ==
    op = "ProxyManager" =>
        /\ activeWindows = Cardinality(instance_.created)
        /\ result # NoCalls => result[1].window \notin instance_.released
        /\ \A map \in CallbackMaps : \A window \in instance_.released :
               EntryOf(instance_, map, window) = << >>

\* The part of C29 about the number of windows.
C29_ActiveWindows ==
    op = "ProxyManager" /\ instance_.released # {} =>
        /\ activeWindows = Cardinality(instance_.created)
        /\ DOMAIN instance_.windows_ = instance_.created


\* The buffer was made of an image by ImageToBuffer.
FromImage == op = "Image" /\ pc # "image" /\ img # NoImage

\* Every stride of the buffer is that of the image in samples, times the
\* size of a sample.
StridesInBytes ==
    LET itemsize == SizeOf(img.dataType)
        n == Len(img.strides)
    IN /\ \A ii \in 1..n : result.strides[ii] = img.strides[ii] * itemsize
       /\ img.tensorElements # 1 =>
              /\ Len(result.strides) = n + 1
              /\ result.strides[n + 1] = img.tensorStride * itemsize

\* C30: ImageToBuffer gives every stride, that of the tensor dimension
\* too, in bytes; BufferToImage rejects a buffer with a stride that is no
\* whole multiple of the size of a sample, and makes of the buffer of an
\* image an image of the same data type, sizes, tensor elements and
\* strides.
C30_RoundTrip ==
    op = "Image" =>
        /\ FromImage => StridesInBytes
        /\ (pc \in { "done", "undefined" }) =>
               \A ii \in 1..Len(result.strides) : result.strides[ii] % result.itemsize = 0
        /\ FromImage => pc \in { "buffer", "done" }
        /\ (FromImage /\ pc = "done") =>
               /\ output.dataType = img.dataType
               /\ output.sizes = img.sizes
               /\ output.strides = img.strides
               /\ output.tensorElements = img.tensorElements
               /\ img.tensorElements # 1 => output.tensorStride = img.tensorStride

\* The parts of C30 about the strides of the spatial dimensions and about
\* the strides BufferToImage rejects.
C30_SpatialStridesAndRejection ==
    op = "Image" =>
        /\ FromImage =>
               \A ii \in 1..Len(img.strides) :
                   result.strides[ii] = img.strides[ii] * SizeOf(img.dataType)
        /\ (pc \in { "done", "undefined" }) =>
               \A ii \in 1..Len(result.strides) : result.strides[ii] % result.itemsize = 0
        /\ (pc = "error" /\ result.format # ObjectFormat) =>
               \E ii \in 1..Len(result.strides) : result.strides[ii] % result.itemsize # 0

\* The round trip of an image whose last dimension has TensorLimit samples
\* or more, or whose tensor dimension has fewer, with samples of one byte.
C30_OneByteSamples ==
    (FromImage /\ SizeOf(img.dataType) = 1
         /\ img.tensorElements \in 2..(TensorLimit - 1)) =>
        /\ pc \in { "buffer", "done" }
        /\ pc = "done" => /\ output.dataType \in { dt \in DataTypes : SizeOf(dt) = 1 }
                          /\ output.sizes = img.sizes
                          /\ output.strides = img.strides
                          /\ output.tensorElements = img.tensorElements
                          /\ output.tensorStride = img.tensorStride

====
